---------------------------- MODULE Spec2Model ----------------------------
(***************************************************************************)
(* Model of the construction-expense bot: the profit calculator            *)
(* (bot/services/calculations.py), the object report                       *)
(* (bot/services/report_generator.py), the expense table with its          *)
(* compensation status (database/crud.py) and the chat handlers that       *)
(* create objects and expenses and mark expenses as compensated            *)
(* (bot/handlers/add_object.py, expenses.py, objects.py).                  *)
(*                                                                         *)
(* Money.  A Numeric(12, 2) column is held as its number of kopecks.  A    *)
(* Decimal computed by the calculator is held as its number of 10^-4       *)
(* roubles: the product of a two-digit column and a two-digit rate         *)
(* (Decimal("0.45")) has four fractional digits and Decimal arithmetic     *)
(* keeps them.  A Decimal quotient is held as a fraction in lowest terms;  *)
(* the magnitudes of the model stay far below the 28 significant digits    *)
(* of the default Decimal context.                                         *)
(***************************************************************************)
EXTENDS Integers, Sequences, FiniteSets, Bags, TLC

VARIABLES
    calc_obj,   \* the ConstructionObject handed to the calculator, relations loaded
    calc_out,   \* what the last call on calc_obj returned
    objects,    \* table objects:  id -> row
    expenses,   \* table expenses: id -> row
    logs,       \* table object_logs: the rows written, as a multiset
    fsm,        \* FSM context of every user: state and data
    compensate_buttons, \* expenses whose "mark as compensated" button is on a screen
    advances,   \* table advances: id -> row
    users,      \* table users: telegram id -> row
    expenses_id_seq, \* the sequence of expenses.id: the last key handed out
    tasks,      \* compensate callbacks being handled as concurrent asyncio tasks
    period_in,  \* the arguments of a call of the period services
    period_out, \* what that call returned
    answer      \* the last event handled and what the bot answered

vars == <<calc_obj, calc_out, objects, expenses, logs, fsm, compensate_buttons, tasks,
         period_in, period_out, answer, advances, expenses_id_seq, users>>

None == "None"

-----------------------------------------------------------------------------
(* Bounds of the model *)

MaxCalcExpenses == 2
MaxCalcAdvances == 2
MaxObjects == 1
MaxExpenses == 1
MaxLogs == 3
MaxTasks == 2
MaxTemplates == 2
MaxCompanyExpenses == 1
MaxReportObjects == 2
MaxPeriodObjects == 2

-----------------------------------------------------------------------------
(* Enumerations of database/models.py *)

ExpenseType == {"supplies", "transport", "overhead"}
PaymentSource == {"company", "personal"}
CompensationStatus == {"pending", "compensated"}
UserRole == {"admin", "foreman"}

-----------------------------------------------------------------------------
(* Decimal arithmetic *)

RateScale == 100
FZP_MASTER_RATE == 45
FZP_FOREMAN_RATE == 10

\* Decimal value of a Numeric(12, 2) column holding k kopecks, in 10^-4 roubles
Dec(k) == k * RateScale

\* obj.field * Decimal("0.rr"): kopecks times hundredths, exact
MulRate(k, rate) == k * rate

Abs(x) == IF x < 0 THEN -x ELSE x

RECURSIVE GCD(_, _)
GCD(a, b) == IF b = 0 THEN a ELSE GCD(b, a % b)

DecimalZero == [exc |-> None, num |-> 0, den |-> 1]

\* a / b on Decimals: raises decimal.DivisionByZero (InvalidOperation for
\* 0 / 0) when b is zero, otherwise the quotient, in lowest terms
DecimalDiv(a, b) ==
    IF b = 0
    THEN [exc |-> "DivisionByZero"]
    ELSE LET g == GCD(Abs(a), Abs(b))
             s == IF b < 0 THEN -1 ELSE 1
         IN  [exc |-> None, num |-> s * (a \div g), den |-> s * (b \div g)]

\* q * 100 on a Decimal quotient
DecimalTimes100(q) ==
    IF q.exc # None
    THEN q
    ELSE LET g == GCD(100, q.den)
         IN  [exc |-> None, num |-> q.num * (100 \div g), den |-> q.den \div g]

RECURSIVE SumAmount(_)
\* sum(x.amount for x in rows), in kopecks
SumAmount(rows) ==
    IF rows = <<>> THEN 0 ELSE Head(rows).amount + SumAmount(Tail(rows))

-----------------------------------------------------------------------------
(* bot/services/calculations.py: calculate_profit_data *)

total_income(obj) == Dec(obj.prepayment) + Dec(obj.final_payment)

s3_difference(obj) == Dec(obj.estimate_s3) - Dec(obj.actual_s3_discount)

fzp_master(obj) == MulRate(obj.estimate_works, FZP_MASTER_RATE)

fzp_foreman(obj) == MulRate(obj.estimate_works, FZP_FOREMAN_RATE)

\* slip: the foreman's share left out of the payroll fund
fzp_total_master_only(obj) == fzp_master(obj)

fzp_total(obj) == fzp_master(obj) + fzp_foreman(obj)

\* slip: only the master's 45% taken off the works estimate
work_profit_less_master_only(obj) == Dec(obj.estimate_works) - fzp_master(obj)

\* slip: the advances issued taken off the works profit
work_profit_less_advances(obj) ==
    Dec(obj.estimate_works) - fzp_total(obj) - Dec(SumAmount(obj.advances))

work_profit(obj) == Dec(obj.estimate_works) - fzp_total(obj)

\* slip: only what the company paid counted
supplies_fact_paid_by_company(obj) ==
    Dec(SumAmount(SelectSeq(obj.expenses,
            LAMBDA e : e.type = "supplies" /\ e.payment_source = "company")))

supplies_fact(obj) ==
    Dec(SumAmount(SelectSeq(obj.expenses, LAMBDA e : e.type = "supplies")))

\* slip: the filter of the supplies sum copied unchanged
transport_fact_filters_supplies(obj) ==
    Dec(SumAmount(SelectSeq(obj.expenses, LAMBDA e : e.type = "supplies")))

transport_fact(obj) ==
    Dec(SumAmount(SelectSeq(obj.expenses, LAMBDA e : e.type = "transport")))

\* slip: the filter of the transport sum copied unchanged
overhead_fact_filters_transport(obj) ==
    Dec(SumAmount(SelectSeq(obj.expenses, LAMBDA e : e.type = "transport")))

overhead_fact(obj) ==
    Dec(SumAmount(SelectSeq(obj.expenses, LAMBDA e : e.type = "overhead")))

supplies_difference(obj) == Dec(obj.estimate_supplies) - supplies_fact(obj)

overhead_difference(obj) == Dec(obj.estimate_overhead) - overhead_fact(obj)

transport_difference(obj) == Dec(obj.estimate_transport) - transport_fact(obj)

\* slip: the last line of the sum lost
total_profit_without_transport(obj) ==
    s3_difference(obj) + work_profit(obj) + supplies_difference(obj)
        + overhead_difference(obj)

\* slip: the advances issued taken off the profit
total_profit_less_advances(obj) ==
    s3_difference(obj) + work_profit(obj) + supplies_difference(obj)
        + overhead_difference(obj) + transport_difference(obj)
        - Dec(SumAmount(obj.advances))

total_profit(obj) ==
    s3_difference(obj) + work_profit(obj) + supplies_difference(obj)
        + overhead_difference(obj) + transport_difference(obj)

\* slip: the payroll fund left out of the expenses
total_expenses_without_payroll(obj) ==
    Dec(obj.actual_s3_discount) + supplies_fact(obj)
        + overhead_fact(obj) + transport_fact(obj)

total_expenses(obj) ==
    Dec(obj.actual_s3_discount) + fzp_total(obj) + supplies_fact(obj)
        + overhead_fact(obj) + transport_fact(obj)

profitability(obj) ==
    IF total_income(obj) > 0
    THEN DecimalTimes100(DecimalDiv(total_profit(obj), total_income(obj)))
    ELSE DecimalZero

calculate_profit_data(obj) ==
    IF profitability(obj).exc # None
    THEN [exc |-> profitability(obj).exc]
    ELSE [exc |-> None,
          total_income |-> total_income(obj),
          prepayment |-> Dec(obj.prepayment),
          final_payment |-> Dec(obj.final_payment),
          estimate_s3 |-> Dec(obj.estimate_s3),
          actual_s3_discount |-> Dec(obj.actual_s3_discount),
          s3_difference |-> s3_difference(obj),
          estimate_works |-> Dec(obj.estimate_works),
          fzp_master |-> fzp_master(obj),
          fzp_foreman |-> fzp_foreman(obj),
          fzp_total |-> fzp_total(obj),
          work_profit |-> work_profit(obj),
          estimate_supplies |-> Dec(obj.estimate_supplies),
          supplies_fact |-> supplies_fact(obj),
          supplies_difference |-> supplies_difference(obj),
          estimate_overhead |-> Dec(obj.estimate_overhead),
          overhead_fact |-> overhead_fact(obj),
          overhead_difference |-> overhead_difference(obj),
          estimate_transport |-> Dec(obj.estimate_transport),
          transport_fact |-> transport_fact(obj),
          transport_difference |-> transport_difference(obj),
          total_expenses |-> total_expenses(obj),
          total_profit |-> total_profit(obj),
          profitability |-> profitability(obj)]

-----------------------------------------------------------------------------
(* bot/services/report_generator.py: generate_object_report *)

total_advances_amount(obj) == Dec(SumAmount(obj.advances))

\* the figures the report text is rendered from
generate_object_report(obj) ==
    [data |-> calculate_profit_data(obj),
     total_advances_amount |-> total_advances_amount(obj)]

-----------------------------------------------------------------------------
(* Inputs of the calculator: objects as get_object_by_id loads them.  The   *)
(* numeric columns carry whatever save_object stored: the PDF import and    *)
(* the text corrections of add_object.py convert with _to_decimal, which    *)
(* accepts negative numbers.                                                *)

SeqsUpTo(S, n) == UNION {[1..k -> S] : k \in 0..n}

CalcPrepayments == {-100, 0, 15000}
CalcFinalPayments == {0, 35000}
CalcEstimateS3 == {20000}
CalcActualS3 == {18000, 20000}
CalcEstimateWorks == {0, 1, 10000000}
CalcEstimateSupplies == {5000}
CalcEstimateOverhead == {3000}
CalcEstimateTransport == {0, 700}
CalcExpenseAmounts == {500, 6000}
CalcAdvanceAmounts == {1500}

CalcExpenseRows ==
    [type : ExpenseType, amount : CalcExpenseAmounts,
     payment_source : {"company"}, compensation_status : {None}]

CalcAdvanceRows ==
    [worker_name : {"Ivanov"}, work_type : {"masonry"}, amount : CalcAdvanceAmounts]

CalcObjects ==
    [prepayment : CalcPrepayments,
     final_payment : CalcFinalPayments,
     estimate_s3 : CalcEstimateS3,
     actual_s3_discount : CalcActualS3,
     estimate_works : CalcEstimateWorks,
     estimate_supplies : CalcEstimateSupplies,
     estimate_overhead : CalcEstimateOverhead,
     estimate_transport : CalcEstimateTransport,
     expenses : SeqsUpTo(CalcExpenseRows, MaxCalcExpenses),
     advances : SeqsUpTo(CalcAdvanceRows, MaxCalcAdvances)]

NoObject ==
    [prepayment |-> 0, final_payment |-> 0, estimate_s3 |-> 0,
     actual_s3_discount |-> 0, estimate_works |-> 0, estimate_supplies |-> 0,
     estimate_overhead |-> 0, estimate_transport |-> 0,
     expenses |-> <<>>, advances |-> <<>>]

NoOutput == [kind |-> "none"]

-----------------------------------------------------------------------------
(* The database and the chat, before any event *)

Users == {"admin", "foreman"}

\* users.role of the two users
role(u) == u

\* the users table: the admin of ADMIN_TELEGRAM_IDS and a foreman added by
\* /add_user, both active
RegisteredUsers == [u \in Users |-> [role |-> role(u), is_active |-> TRUE]]

NoData == << >>

\* no compensate callback is being handled
NoTasks == << >>

\* no call of the period services is pending
NoPeriod == [kind |-> "none"]

DbInit ==
    /\ tasks = NoTasks
    /\ period_in = NoPeriod
    /\ period_out = NoOutput
    /\ objects = << >>
    /\ expenses = << >>
    /\ expenses_id_seq = 0
    /\ logs = EmptyBag
    /\ fsm = [u \in Users |-> [state |-> None, data |-> NoData]]
    /\ compensate_buttons = {}
    /\ advances = << >>
    /\ users = RegisteredUsers
    /\ answer = [event |-> None, text |-> None]

DbVars == <<objects, expenses, expenses_id_seq, advances, users, logs, fsm, compensate_buttons, tasks, answer>>

ServiceVars == <<calc_obj, calc_out, period_in, period_out>>

\* everything a handler can change, the answer left out
DbVars_but_answer == <<objects, expenses, expenses_id_seq, advances, users, logs, fsm, compensate_buttons, tasks>>

-----------------------------------------------------------------------------
(* SpecCalc: the calculator and the report applied to every input *)

CalcInit ==
    /\ calc_obj \in CalcObjects
    /\ calc_out = NoOutput
    /\ DbInit

CallCalculate ==
    /\ calc_out = NoOutput
    /\ calc_out' = [kind |-> "data", data |-> calculate_profit_data(calc_obj)]
    /\ UNCHANGED <<calc_obj, period_in, period_out, DbVars>>

CallReport ==
    /\ calc_out = NoOutput
    /\ calc_out' = [kind |-> "report", report |-> generate_object_report(calc_obj)]
    /\ UNCHANGED <<calc_obj, period_in, period_out, DbVars>>

CalcNext == CallCalculate \/ CallReport

SpecCalc == CalcInit /\ [][CalcNext]_vars

-----------------------------------------------------------------------------
(* Claims about the calculator, checked under SpecCalc *)

Calculated == calc_out.kind = "data"

RECURSIVE SumAt(_, _)
\* the amounts of rows at the positions I, added up in any order
SumAt(rows, I) ==
    IF I = {} THEN 0
    ELSE LET i == CHOOSE j \in I : TRUE
         IN  rows[i].amount + SumAt(rows, I \ {i})

PositionsOfType(obj, t) == {i \in DOMAIN obj.expenses : obj.expenses[i].type = t}

ActualOfType(obj, t) == Dec(SumAt(obj.expenses, PositionsOfType(obj, t)))

\* C1: total_profit is exactly s3_difference + work_profit + supplies_difference
\* + overhead_difference + transport_difference, and every difference is the
\* estimate of its line minus the summed actual of that line (so it is negative
\* on overspend).
C1_TotalProfitIsSumOfDifferences ==
    Calculated =>
        LET d == calc_out.data IN
        /\ d.exc = None
        /\ d.total_profit = d.s3_difference + d.work_profit + d.supplies_difference
                                + d.overhead_difference + d.transport_difference
        /\ d.s3_difference = Dec(calc_obj.estimate_s3) - Dec(calc_obj.actual_s3_discount)
        /\ d.supplies_difference =
               Dec(calc_obj.estimate_supplies) - ActualOfType(calc_obj, "supplies")
        /\ d.overhead_difference =
               Dec(calc_obj.estimate_overhead) - ActualOfType(calc_obj, "overhead")
        /\ d.transport_difference =
               Dec(calc_obj.estimate_transport) - ActualOfType(calc_obj, "transport")

\* an object calculated with supplies and transport overspent
C1_Witness ==
    /\ Calculated
    /\ calc_out.data.supplies_difference < 0
    /\ calc_out.data.transport_difference < 0
    /\ calc_out.data.total_profit > 0

Scenario1 ==
    /\ Calculated
    /\ calc_obj.estimate_works = 10000000
    /\ calc_obj.expenses = << >>
    /\ calc_obj.actual_s3_discount = calc_obj.estimate_s3

\* C2 as stated: with estimate_works = 100000, no expenses and
\* actual_s3_discount = estimate_s3, work_profit = 55000, s3_difference = 0 and
\* total_profit = estimate_supplies + estimate_overhead + estimate_transport + 55000.
C2_Original ==
    Scenario1 =>
        /\ calc_out.data.work_profit = Dec(5500000)
        /\ calc_out.data.s3_difference = 0
        /\ calc_out.data.total_profit =
               Dec(calc_obj.estimate_supplies) + Dec(calc_obj.estimate_overhead)
                   + Dec(calc_obj.estimate_transport) + Dec(5500000)

\* C2 with the figure the code computes: in that scenario work_profit = 45000
\* (the works estimate less the 55% payroll fund), s3_difference = 0 and
\* total_profit = estimate_supplies + estimate_overhead + estimate_transport + 45000.
C2_WorkProfitOfScenario ==
    Scenario1 =>
        /\ calc_out.data.work_profit = Dec(4500000)
        /\ calc_out.data.s3_difference = 0
        /\ calc_out.data.total_profit =
               Dec(calc_obj.estimate_supplies) + Dec(calc_obj.estimate_overhead)
                   + Dec(calc_obj.estimate_transport) + Dec(4500000)

\* the scenario, calculated, with all three estimates present
C2_Witness ==
    /\ Scenario1
    /\ calc_obj.estimate_transport > 0
    /\ calc_obj.estimate_supplies > 0
    /\ calc_obj.estimate_overhead > 0

\* C3: work_profit = estimate_works - (fzp_master + fzp_foreman), fzp_master is
\* 45% and fzp_foreman 10% of estimate_works, so work_profit is exactly 45% of
\* estimate_works, whatever has been advanced to workers.
C3_WorkProfitIs45Percent ==
    Calculated =>
        LET d == calc_out.data IN
        /\ d.work_profit = d.estimate_works - (d.fzp_master + d.fzp_foreman)
        /\ d.fzp_master = 45 * calc_obj.estimate_works
        /\ d.fzp_foreman = 10 * calc_obj.estimate_works
        /\ d.work_profit = 45 * calc_obj.estimate_works

\* an object with works estimated and advances issued
C3_Witness ==
    /\ Calculated
    /\ calc_obj.estimate_works > 0
    /\ Len(calc_obj.advances) = MaxCalcAdvances
    /\ calc_out.data.work_profit > 0

\* C4: fzp_master + fzp_foreman + work_profit = estimate_works exactly, and
\* fzp_total = fzp_master + fzp_foreman.
C4_WorksSplitExactly ==
    Calculated =>
        LET d == calc_out.data IN
        /\ d.fzp_master + d.fzp_foreman + d.work_profit = Dec(calc_obj.estimate_works)
        /\ d.fzp_total = d.fzp_master + d.fzp_foreman

\* a works estimate of one kopeck: the shares are fractions of a kopeck
C4_Witness ==
    /\ Calculated
    /\ calc_obj.estimate_works = 1
    /\ calc_out.data.fzp_master % RateScale # 0

\* C5 as stated: with total_income = 0 profitability is 0 and nothing is raised,
\* whatever the sign of total_profit; otherwise profitability is
\* total_profit / total_income * 100.
C5_ProfitabilityAsStated ==
    Calculated =>
        LET d == calc_out.data IN
        /\ d.exc = None
        /\ total_income(calc_obj) = 0 => d.profitability = DecimalZero
        /\ total_income(calc_obj) # 0 =>
               d.profitability =
                   DecimalTimes100(DecimalDiv(d.total_profit, d.total_income))

\* C6: for each type T, T_fact is the sum of the amounts of the expenses of type
\* T; with no expense of type T, T_fact = 0 and T_difference is the whole
\* estimate of T.
C6_FactPerType ==
    Calculated =>
        LET d == calc_out.data
            fact == [t \in ExpenseType |->
                        CASE t = "supplies" -> d.supplies_fact
                          [] t = "transport" -> d.transport_fact
                          [] t = "overhead" -> d.overhead_fact]
            diff == [t \in ExpenseType |->
                        CASE t = "supplies" -> d.supplies_difference
                          [] t = "transport" -> d.transport_difference
                          [] t = "overhead" -> d.overhead_difference]
            estimate == [t \in ExpenseType |->
                        CASE t = "supplies" -> Dec(calc_obj.estimate_supplies)
                          [] t = "transport" -> Dec(calc_obj.estimate_transport)
                          [] t = "overhead" -> Dec(calc_obj.estimate_overhead)]
        IN  \A t \in ExpenseType :
                /\ fact[t] = ActualOfType(calc_obj, t)
                /\ PositionsOfType(calc_obj, t) = {} =>
                       fact[t] = 0 /\ diff[t] = estimate[t]

\* supplies bought twice, nothing spent on transport, which has an estimate
C6_Witness ==
    /\ Calculated
    /\ Cardinality(PositionsOfType(calc_obj, "supplies")) = 2
    /\ PositionsOfType(calc_obj, "transport") = {}
    /\ calc_out.data.transport_difference > 0
    /\ calc_out.data.supplies_fact > 0

\* C7: advances are never subtracted: objects that differ only in their advance
\* records get the same value for every field of calculate_profit_data; in the
\* object report the advances appear only as their sum.
C7_AdvancesNotSubtracted ==
    /\ Calculated =>
           \A advs \in SeqsUpTo(CalcAdvanceRows, MaxCalcAdvances) :
               calculate_profit_data([calc_obj EXCEPT !.advances = advs]) = calc_out.data
    /\ calc_out.kind = "report" =>
           /\ calc_out.report.total_advances_amount =
                  Dec(SumAt(calc_obj.advances, DOMAIN calc_obj.advances))
           /\ calc_out.report.data =
                  calculate_profit_data([calc_obj EXCEPT !.advances = << >>])

\* a report of an object with advances issued
C7_Witness ==
    /\ calc_out.kind = "report"
    /\ calc_out.report.total_advances_amount > 0
    /\ calc_out.report.data.total_income > 0

-----------------------------------------------------------------------------
(* aiogram FSMContext of one user *)

\* state.update_data(**upd)
update_data(ctx, upd) ==
    [ctx EXCEPT !.data = [k \in DOMAIN ctx.data \cup DOMAIN upd |->
                              IF k \in DOMAIN upd THEN upd[k] ELSE ctx.data[k]]]

\* state.set_state(st)
set_state(ctx, st) == [ctx EXCEPT !.state = st]

\* state.clear()
clear == [state |-> None, data |-> NoData]

\* data.get(key, default)
get(data, key, default) == IF key \in DOMAIN data THEN data[key] ELSE default

-----------------------------------------------------------------------------
(* database/crud.py *)

\* the autoincrement key of the next row of a table
NextId(table) == Cardinality(DOMAIN table) + 1

\* INSERT of one row under the next key
Insert(table, row) ==
    [i \in DOMAIN table \cup {NextId(table)} |->
        IF i \in DOMAIN table THEN table[i] ELSE row]

create_object(tbl, created_by, payload) ==
    Insert(tbl, [name |-> payload.name,
                 prepayment |-> payload.prepayment,
                 final_payment |-> payload.final_payment,
                 estimate_s3 |-> payload.estimate_s3,
                 estimate_works |-> payload.estimate_works,
                 estimate_supplies |-> payload.estimate_supplies,
                 estimate_overhead |-> payload.estimate_overhead,
                 estimate_transport |-> payload.estimate_transport,
                 actual_s3_discount |-> payload.actual_s3_discount,
                 created_by |-> created_by,
                 status |-> "active",
                 completed_at |-> 0])

\* a variant whose UPDATE matches no row
update_object_status_matches_no_row(tbl, object_id, status, now) == tbl

\* a variant whose UPDATE sets the status and leaves completed_at of a
\* restored object as it was
update_object_status_keeps_completed_at(tbl, object_id, status, now) ==
    [i \in DOMAIN tbl |->
        IF i = object_id
        THEN [tbl[i] EXCEPT !.status = status,
                            !.completed_at = IF status = "completed" THEN now ELSE @]
        ELSE tbl[i]]

\* UPDATE objects SET status = status, completed_at = (utcnow() if status is
\* COMPLETED else NULL) WHERE id = object_id: the table after the statement.
\* completed_at holds 0 for NULL and the instant of the clock otherwise
update_object_status(tbl, object_id, status, now) ==
    [i \in DOMAIN tbl |->
        IF i = object_id
        THEN [tbl[i] EXCEPT !.status = status,
                            !.completed_at = IF status = "completed" THEN now ELSE 0]
        ELSE tbl[i]]

\* INSERT of one row under a key
InsertUnder(table, id, row) ==
    [i \in DOMAIN table \cup {id} |-> IF i = id THEN row ELSE table[i]]

\* seq is the last key the sequence of expenses.id handed out
create_expense(tbl, seq, object_id, expense_type, amount, description, date, added_by, photo_url, payment_source, compensation_status) ==
    InsertUnder(tbl, seq + 1,
                [object_id |-> object_id,
                 type |-> expense_type,
                 amount |-> amount,
                 description |-> description,
                 date |-> date,
                 photo_url |-> photo_url,
                 added_by |-> added_by,
                 payment_source |-> payment_source,
                 compensation_status |-> compensation_status])

\* a variant whose UPDATE matches no row
update_compensation_status_matches_no_row(tbl, expense_id, status) == tbl

\* UPDATE expenses SET compensation_status = status WHERE id = expense_id:
\* the table after the statement
update_compensation_status(tbl, expense_id, status) ==
    [i \in DOMAIN tbl |->
        IF i = expense_id
        THEN [tbl[i] EXCEPT !.compensation_status = status]
        ELSE tbl[i]]

\* ... RETURNING Expense, scalar_one_or_none(): whether a row came back
update_compensation_status_returns(tbl, expense_id) == expense_id \in DOMAIN tbl

\* UPDATE expenses SET **fields WHERE id = expense_id: the table after the
\* statement (fields is not empty)
update_expense(tbl, expense_id, fields) ==
    [i \in DOMAIN tbl |->
        IF i = expense_id
        THEN [k \in DOMAIN tbl[i] |->
                 IF k \in DOMAIN fields THEN fields[k] ELSE tbl[i][k]]
        ELSE tbl[i]]

create_object_log(tbl, object_id, action, description, user_id) ==
    tbl (+) SetToBag({[object_id |-> object_id, action |-> action,
                       description |-> description, user_id |-> user_id]})

-----------------------------------------------------------------------------
(* What the language model hands back: the oracle of pdf_parser.py and      *)
(* ai_parser.py, enumerated                                                 *)

\* parse_pdf_to_object_data after _normalize_object_data: amounts in kopecks
ParsedSheets ==
    {[name |-> "House", prepayment |-> 15000, final_payment |-> 35000,
      estimate_s3 |-> 20000, actual_s3_discount |-> 18000, estimate_works |-> 10000,
      estimate_supplies |-> 5000, estimate_overhead |-> 3000,
      estimate_transport |-> 700]}

\* Decimal(value.replace(" ", "").replace(",", ".")) on the message texts of
\* the model, in kopecks; "abc" raises InvalidOperation.  A sign and a zero
\* are legal Decimal literals
DecimalOfText(value) ==
    CASE value = "12500" -> [ok |-> TRUE, amount |-> 1250000]
      [] value = "12 500,50" -> [ok |-> TRUE, amount |-> 1250050]
      [] value = "0" -> [ok |-> TRUE, amount |-> 0]
      [] value = "-500" -> [ok |-> TRUE, amount |-> -50000]
      [] OTHER -> [ok |-> FALSE]

\* parse_pdf_to_object_data after _normalize_object_data, any estimate: the
\* numbers are those of the reply of the language model, converted by
\* _to_decimal, which takes a negative number as it takes any other
ParsedEstimates ==
    ParsedSheets \cup
    {[name |-> "Shed", prepayment |-> -100, final_payment |-> 0,
      estimate_s3 |-> 20000, actual_s3_discount |-> 18000, estimate_works |-> 0,
      estimate_supplies |-> 5000, estimate_overhead |-> 3000,
      estimate_transport |-> 0]}

\* parse_object_correction: whether a reply with a field came back, the
\* field, its value in kopecks, whether _to_decimal could convert the value
\* and whether the confidence is at least 0.4
ParsedCorrections ==
    {[parsed |-> FALSE, field |-> "", value |-> 0, converts |-> FALSE, confident |-> TRUE],
     [parsed |-> TRUE, field |-> "colour", value |-> 0, converts |-> FALSE, confident |-> TRUE],
     [parsed |-> TRUE, field |-> "estimate_works", value |-> 2000000, converts |-> TRUE, confident |-> FALSE],
     [parsed |-> TRUE, field |-> "estimate_works", value |-> 0, converts |-> FALSE, confident |-> TRUE],
     [parsed |-> TRUE, field |-> "estimate_works", value |-> 2000000, converts |-> TRUE, confident |-> TRUE],
     [parsed |-> TRUE, field |-> "final_payment", value |-> -35000, converts |-> TRUE, confident |-> TRUE]}

\* parse_expense_text: date, amount (kopecks), description, payment_source
ParsedExpenses ==
    {[date |-> 20, amount |-> 500000, description |-> "cement",
      payment_source |-> "PERSONAL"]}

\* parse_expense_text, lines 74-89: what it returns for the replies of the
\* language model.  The amount is Decimal(str(data.get("amount", 0))), any
\* number the reply holds, and Decimal(0) when the reply cannot be read
ParsedAmounts ==
    ParsedExpenses \cup
    {[date |-> 20, amount |-> 0, description |-> "bought cement",
      payment_source |-> "COMPANY"],
     [date |-> 20, amount |-> -50000, description |-> "refund",
      payment_source |-> "COMPANY"]}

\* the buttons expense:add:<type>:<object_id> pressed in the model
AddExpenseButtons == {"supplies"}

\* the buttons expense:edit_field:<field> pressed in the model
EditFields == {"payment_source"}

ObjectIds == 1..MaxObjects
ExpenseIds == 1..MaxExpenses

Reply(event, text) == [event |-> event, text |-> text]

Ctx(u) == fsm[u]

SetCtx(u, ctx) == fsm' = [fsm EXCEPT ![u] = ctx]

-----------------------------------------------------------------------------
(* bot/handlers/add_object.py: creating an object from an imported estimate *)

start_add_object(u) ==
    /\ IF role(u) # "admin"
       THEN /\ answer' = Reply("add_object", "no rights to create objects")
            /\ UNCHANGED fsm
       ELSE /\ SetCtx(u, set_state(clear, "AddObjectStates:choose_mode"))
            /\ answer' = Reply("add_object", "choose mode")
    /\ UNCHANGED <<ServiceVars, users, advances, expenses_id_seq, tasks, objects, expenses, logs, compensate_buttons>>

select_pdf_mode(u) ==
    /\ Ctx(u).state = "AddObjectStates:choose_mode"
    /\ SetCtx(u, set_state(Ctx(u), "AddObjectStates:waiting_pdf"))
    /\ answer' = Reply("object:create:mode:pdf", "send the PDF")
    /\ UNCHANGED <<ServiceVars, users, advances, expenses_id_seq, tasks, objects, expenses, logs, compensate_buttons>>

handle_pdf_upload(u, parsed) ==
    /\ Ctx(u).state = "AddObjectStates:waiting_pdf"
    /\ SetCtx(u, set_state(update_data(Ctx(u), parsed @@ [import_mode |-> TRUE]),
                           "AddObjectStates:confirm_object"))
    /\ answer' = Reply("pdf", "summary")
    /\ UNCHANGED <<ServiceVars, users, advances, expenses_id_seq, tasks, objects, expenses, logs, compensate_buttons>>

select_manual_mode(u) ==
    /\ Ctx(u).state = "AddObjectStates:choose_mode"
    /\ SetCtx(u, set_state(Ctx(u), "AddObjectStates:enter_name"))
    /\ answer' = Reply("object:create:mode:manual", "step 1/12")
    /\ UNCHANGED <<ServiceVars, users, advances, expenses_id_seq, tasks, objects, expenses, logs, compensate_buttons>>

\* the steps that store message.text.strip() under a key
process_text_step(u, state, key, text, next_state) ==
    /\ Ctx(u).state = state
    /\ SetCtx(u, set_state(update_data(Ctx(u), [k \in {key} |-> text]), next_state))
    /\ answer' = Reply("text", next_state)
    /\ UNCHANGED <<ServiceVars, users, advances, expenses_id_seq, tasks, objects, expenses, logs, compensate_buttons>>

process_name(u, text) ==
    process_text_step(u, "AddObjectStates:enter_name", "name", text,
                      "AddObjectStates:enter_address")

process_address(u, text) ==
    process_text_step(u, "AddObjectStates:enter_address", "address", text,
                      "AddObjectStates:enter_foreman")

process_foreman(u, text) ==
    process_text_step(u, "AddObjectStates:enter_foreman", "foreman_name", text,
                      "AddObjectStates:enter_dates")

\* the texts sent in reply to "enter the dates" and what strptime makes of
\* them: a text without " - " leaves both dates None
DateTexts == {"01.11.2025 - 30.11.2025", "01.11 - 30.11", "later"}

process_dates(u, text) ==
    /\ Ctx(u).state = "AddObjectStates:enter_dates"
    /\ IF text = "01.11 - 30.11"
       THEN /\ answer' = Reply("text", "wrong format of the dates")
            /\ UNCHANGED fsm
       ELSE /\ SetCtx(u, set_state(
                   update_data(Ctx(u),
                       IF text = "later"
                       THEN [start_date |-> None, end_date |-> None]
                       ELSE [start_date |-> "2025-11-01", end_date |-> "2025-11-30"]),
                   "AddObjectStates:enter_prepayment"))
            /\ answer' = Reply("text", "AddObjectStates:enter_prepayment")
    /\ UNCHANGED <<ServiceVars, users, advances, expenses_id_seq, tasks, objects, expenses, logs, compensate_buttons>>

skip_step(u) ==
    /\ IF Ctx(u).state = "AddObjectStates:enter_address"
       THEN SetCtx(u, set_state(update_data(Ctx(u), [address |-> None]),
                                "AddObjectStates:enter_foreman"))
       ELSE IF Ctx(u).state = "AddObjectStates:enter_foreman"
       THEN SetCtx(u, set_state(update_data(Ctx(u), [foreman_name |-> None]),
                                "AddObjectStates:enter_dates"))
       ELSE IF Ctx(u).state = "AddObjectStates:enter_dates"
       THEN SetCtx(u, set_state(update_data(Ctx(u), [start_date |-> None,
                                                     end_date |-> None]),
                                "AddObjectStates:enter_prepayment"))
       ELSE UNCHANGED fsm
    /\ answer' = Reply("skip", "skipped")
    /\ UNCHANGED <<ServiceVars, users, advances, expenses_id_seq, tasks, objects, expenses, logs, compensate_buttons>>

\* try: Decimal(...); if value < 0: raise ValueError; except: refused
amount_refused(parsed) == ~parsed.ok \/ parsed.amount < 0

\* the eight money steps, alike but for the state, the key and the next state
process_amount_step(u, state, key, text, next_state) ==
    /\ Ctx(u).state = state
    /\ IF amount_refused(DecimalOfText(text))
       THEN /\ answer' = Reply("text", "wrong amount")
            /\ UNCHANGED fsm
       ELSE /\ SetCtx(u, set_state(
                   update_data(Ctx(u), [k \in {key} |-> DecimalOfText(text).amount]),
                   next_state))
            /\ answer' = Reply("text", next_state)
    /\ UNCHANGED <<ServiceVars, users, advances, expenses_id_seq, tasks, objects, expenses, logs, compensate_buttons>>

process_prepayment(u, text) ==
    process_amount_step(u, "AddObjectStates:enter_prepayment", "prepayment", text,
                        "AddObjectStates:enter_final_payment")

process_final_payment(u, text) ==
    process_amount_step(u, "AddObjectStates:enter_final_payment", "final_payment", text,
                        "AddObjectStates:enter_estimate_s3")

process_estimate_s3(u, text) ==
    process_amount_step(u, "AddObjectStates:enter_estimate_s3", "estimate_s3", text,
                        "AddObjectStates:enter_actual_s3_discount")

process_actual_s3_discount(u, text) ==
    process_amount_step(u, "AddObjectStates:enter_actual_s3_discount",
                        "actual_s3_discount", text,
                        "AddObjectStates:enter_estimate_works")

process_estimate_works(u, text) ==
    process_amount_step(u, "AddObjectStates:enter_estimate_works", "estimate_works", text,
                        "AddObjectStates:enter_estimate_supplies")

process_estimate_supplies(u, text) ==
    process_amount_step(u, "AddObjectStates:enter_estimate_supplies",
                        "estimate_supplies", text,
                        "AddObjectStates:enter_estimate_overhead")

process_estimate_overhead(u, text) ==
    process_amount_step(u, "AddObjectStates:enter_estimate_overhead",
                        "estimate_overhead", text,
                        "AddObjectStates:enter_estimate_transport")

process_estimate_transport(u, text) ==
    process_amount_step(u, "AddObjectStates:enter_estimate_transport",
                        "estimate_transport", text,
                        "AddObjectStates:confirm_object")

NUMERIC_FIELDS ==
    {"prepayment", "final_payment", "estimate_s3", "actual_s3_discount",
     "estimate_works", "estimate_supplies", "estimate_overhead", "estimate_transport"}

OBJECT_FIELDS ==
    {"name", "address", "foreman_name", "start_date", "end_date"} \cup NUMERIC_FIELDS

\* handle_text_correction and handle_voice_correction: _apply_correction on
\* what parse_object_correction made of the message (a numeric field in the
\* corrections of the model)
_apply_correction(u, parsed) ==
    /\ Ctx(u).state = "AddObjectStates:confirm_object"
    /\ IF ~parsed.parsed
       THEN /\ answer' = Reply("correction", "did not understand the field")
            /\ UNCHANGED fsm
       ELSE IF parsed.field \notin OBJECT_FIELDS
       THEN /\ answer' = Reply("correction", "could not match the field")
            /\ UNCHANGED fsm
       ELSE IF ~parsed.confident
       THEN /\ answer' = Reply("correction", "not sure")
            /\ UNCHANGED fsm
       ELSE IF parsed.field \in NUMERIC_FIELDS /\ ~parsed.converts
       THEN /\ answer' = Reply("correction", "wrong format of the amount")
            /\ UNCHANGED fsm
       ELSE /\ SetCtx(u, update_data(Ctx(u), [k \in {parsed.field} |-> parsed.value]))
            /\ answer' = Reply("correction", "summary")
    /\ UNCHANGED <<ServiceVars, users, advances, expenses_id_seq, tasks, objects, expenses, logs, compensate_buttons>>

cancel_creation(u) ==
    /\ SetCtx(u, clear)
    /\ answer' = Reply("cancel", "cancelled")
    /\ UNCHANGED <<ServiceVars, users, advances, expenses_id_seq, tasks, objects, expenses, logs, compensate_buttons>>

save_object(u) ==
    /\ Ctx(u).state = "AddObjectStates:confirm_object"
    /\ NextId(objects) <= MaxObjects
    /\ IF get(Ctx(u).data, "name", None) = None
       THEN /\ answer' = Reply("object:save", "name the object first")
            /\ UNCHANGED <<objects, fsm>>
       ELSE /\ objects' = create_object(objects, u, Ctx(u).data)
            /\ SetCtx(u, clear)
            /\ answer' = Reply("object:save", "object created")
    /\ UNCHANGED <<ServiceVars, users, advances, expenses_id_seq, tasks, expenses, logs, compensate_buttons>>

-----------------------------------------------------------------------------
(* bot/handlers/expenses.py: the add-expense flow *)

start_add_expense(u, expense_type, object_id) ==
    /\ IF object_id \notin DOMAIN objects
       THEN /\ answer' = Reply("expense:add", "object not found")
            /\ UNCHANGED fsm
       ELSE /\ SetCtx(u, set_state(
                   update_data(Ctx(u), [expense_type |-> expense_type,
                                        object_id |-> object_id,
                                        object_name |-> objects[object_id].name]),
                   "AddExpenseStates:waiting_input"))
            /\ answer' = Reply("expense:add", "describe the expense")
    /\ UNCHANGED <<ServiceVars, users, advances, expenses_id_seq, tasks, objects, expenses, logs, compensate_buttons>>

process_expense_text(u, parsed) ==
    /\ Ctx(u).state = "AddExpenseStates:waiting_input"
    /\ SetCtx(u, set_state(
           update_data(Ctx(u), [parsed_date |-> parsed.date,
                                parsed_amount |-> parsed.amount,
                                parsed_description |-> parsed.description,
                                parsed_payment_source |-> parsed.payment_source]),
           "AddExpenseStates:confirm_expense"))
    /\ answer' = Reply("text", "check the data")
    /\ UNCHANGED <<ServiceVars, users, advances, expenses_id_seq, tasks, objects, expenses, logs, compensate_buttons>>

confirm_expense(u) ==
    /\ Ctx(u).state = "AddExpenseStates:confirm_expense"
    /\ SetCtx(u, set_state(Ctx(u), "AddExpenseStates:select_payment_source"))
    /\ answer' = Reply("expense:confirm", "who paid")
    /\ UNCHANGED <<ServiceVars, users, advances, expenses_id_seq, tasks, objects, expenses, logs, compensate_buttons>>

select_payment_source(u, payment_source) ==
    /\ Ctx(u).state = "AddExpenseStates:select_payment_source"
    /\ SetCtx(u, set_state(
           update_data(Ctx(u), [selected_payment_source |-> payment_source]),
           "AddExpenseStates:waiting_photo"))
    /\ answer' = Reply("payment", "add a photo of the receipt")
    /\ UNCHANGED <<ServiceVars, users, advances, expenses_id_seq, tasks, objects, expenses, logs, compensate_buttons>>

\* lines 323-326 and 364-367: the payment source and compensation status of
\* the expense about to be created
new_payment_source(data) ==
    IF get(data, "selected_payment_source", "company") = "company"
    THEN "company" ELSE "personal"

\* a variant that marks every new expense as awaiting compensation
new_compensation_status_always_pending(payment_source) == "pending"

new_compensation_status(payment_source) ==
    IF payment_source = "personal" THEN "pending" ELSE None

process_expense_photo(u, saved) ==
    /\ Ctx(u).state = "AddExpenseStates:waiting_photo"
    /\ expenses_id_seq < MaxExpenses
    /\ LET data == Ctx(u).data
           payment_source == new_payment_source(data)
       IN  expenses' = create_expense(expenses, expenses_id_seq,
                                      data.object_id, data.expense_type,
                                      data.parsed_amount, data.parsed_description,
                                      data.parsed_date, u,
                                      IF saved THEN "file" ELSE None,
                                      payment_source,
                                      new_compensation_status(payment_source))
    /\ expenses_id_seq' = expenses_id_seq + 1
    /\ SetCtx(u, clear)
    /\ answer' = Reply("photo", "expense added")
    /\ UNCHANGED <<ServiceVars, users, advances, tasks, objects, logs, compensate_buttons>>

\* a variant that creates the expense and leaves the conversation where it is
skip_expense_photo_keeps_state(u) ==
    /\ Ctx(u).state = "AddExpenseStates:waiting_photo"
    /\ expenses_id_seq < MaxExpenses
    /\ LET data == Ctx(u).data
           payment_source == new_payment_source(data)
       IN  expenses' = create_expense(expenses, expenses_id_seq,
                                      data.object_id, data.expense_type,
                                      data.parsed_amount, data.parsed_description,
                                      data.parsed_date, u, None,
                                      payment_source,
                                      new_compensation_status(payment_source))
    /\ expenses_id_seq' = expenses_id_seq + 1
    /\ answer' = Reply("expense:skip_photo", "expense added")
    /\ UNCHANGED <<ServiceVars, users, advances, tasks, objects, logs, fsm, compensate_buttons>>

skip_expense_photo(u) ==
    /\ Ctx(u).state = "AddExpenseStates:waiting_photo"
    /\ expenses_id_seq < MaxExpenses
    /\ LET data == Ctx(u).data
           payment_source == new_payment_source(data)
       IN  expenses' = create_expense(expenses, expenses_id_seq,
                                      data.object_id, data.expense_type,
                                      data.parsed_amount, data.parsed_description,
                                      data.parsed_date, u, None,
                                      payment_source,
                                      new_compensation_status(payment_source))
    /\ expenses_id_seq' = expenses_id_seq + 1
    /\ SetCtx(u, clear)
    /\ answer' = Reply("expense:skip_photo", "expense added")
    /\ UNCHANGED <<ServiceVars, users, advances, tasks, objects, logs, compensate_buttons>>

-----------------------------------------------------------------------------
(* bot/handlers/objects.py: the expense card, compensation, payment source  *)

DEFAULT_EXPENSE_TYPE_TOKEN == "all"

\* a variant that looks at the payment source alone
_get_expense_status_of_source_only(expense) ==
    IF expense.payment_source = "personal"
    THEN "to be reimbursed to the foreman"
    ELSE "paid with the company card"

_get_expense_status(expense) ==
    IF expense.payment_source = "personal"
    THEN IF expense.compensation_status = "compensated"
         THEN "compensation done"
         ELSE "to be reimbursed to the foreman"
    ELSE "paid with the company card"

\* _build_expense_detail_view, lines 722-749: whether the card sent to a user
\* of role user_role carries the button expense:compensate:<id>
can_compensate(expense) ==
    /\ expense.payment_source = "personal"
    /\ expense.compensation_status = "pending"

shows_compensate_button(expense, user_role) ==
    can_compensate(expense) /\ user_role = "admin"

\* the buttons on screen once the card of expense_id has been sent; a message
\* that carried a button may stay on a screen (delete_message suppresses every
\* failure, and another admin has a card of their own)
ButtonsAfterCard(tbl, expense_id, user_role) ==
    IF shows_compensate_button(tbl[expense_id], user_role)
    THEN compensate_buttons \cup {expense_id}
    ELSE compensate_buttons

view_expense_detail(u, expense_id) ==
    /\ IF expense_id \notin DOMAIN expenses
       THEN /\ answer' = Reply("expense:detail", "expense not found")
            /\ UNCHANGED compensate_buttons
       ELSE /\ compensate_buttons' = ButtonsAfterCard(expenses, expense_id, role(u))
            /\ answer' = Reply("expense:detail", _get_expense_status(expenses[expense_id]))
    /\ UNCHANGED <<ServiceVars, users, advances, expenses_id_seq, tasks, objects, expenses, logs, fsm>>

compensate_expense(u, expense_id) ==
    /\ expense_id \in compensate_buttons
    /\ IF role(u) # "admin"
       THEN /\ answer' = Reply("expense:compensate", "insufficient rights")
            /\ UNCHANGED <<expenses, logs, compensate_buttons>>
       ELSE /\ expenses' = update_compensation_status(expenses, expense_id, "compensated")
            /\ IF ~update_compensation_status_returns(expenses, expense_id)
               THEN /\ answer' = Reply("expense:compensate", "status update error")
                    /\ UNCHANGED <<logs, compensate_buttons>>
               ELSE /\ BagCardinality(logs) < MaxLogs
                    /\ logs' = create_object_log(logs, expenses[expense_id].object_id,
                                                 "expense_compensated", expense_id, u)
                    /\ compensate_buttons' =
                           ButtonsAfterCard(expenses', expense_id, role(u))
                    /\ answer' = Reply("expense:compensate", "compensation marked")
    /\ UNCHANGED <<ServiceVars, users, advances, expenses_id_seq, tasks, objects, fsm>>

start_expense_edit(u, expense_id) ==
    /\ IF role(u) # "admin"
       THEN /\ answer' = Reply("expense:edit", "insufficient rights")
            /\ UNCHANGED fsm
       ELSE IF expense_id \notin DOMAIN expenses
       THEN /\ answer' = Reply("expense:edit", "expense not found")
            /\ UNCHANGED fsm
       ELSE /\ SetCtx(u, update_data(set_state(Ctx(u), "EditExpenseStates:choose_field"),
                                     [expense_id |-> expense_id,
                                      object_id |-> expenses[expense_id].object_id,
                                      page |-> 1,
                                      expense_token |-> DEFAULT_EXPENSE_TYPE_TOKEN]))
            /\ answer' = Reply("expense:edit", "choose the field")
    /\ UNCHANGED <<ServiceVars, users, advances, expenses_id_seq, tasks, objects, expenses, logs, compensate_buttons>>

choose_expense_field(u, field) ==
    /\ Ctx(u).state = "EditExpenseStates:choose_field"
    /\ SetCtx(u, set_state(update_data(Ctx(u), [field |-> field]),
                           IF field = "payment_source"
                           THEN "EditExpenseStates:choose_payment_source"
                           ELSE "EditExpenseStates:waiting_value"))
    /\ answer' = Reply("expense:edit_field", field)
    /\ UNCHANGED <<ServiceVars, users, advances, expenses_id_seq, tasks, objects, expenses, logs, compensate_buttons>>

\* lines 1724-1731: the columns the chosen payment source sets
payment_source_updates(expense, new_value) ==
    IF new_value = "company"
    THEN [payment_source |-> "company", compensation_status |-> None]
    ELSE [payment_source |-> "personal",
          compensation_status |-> IF expense.compensation_status # None
                                  THEN expense.compensation_status
                                  ELSE "pending"]

\* a variant without the role check of lines 1705-1707
apply_expense_payment_source_by_anyone(u, new_value) ==
    /\ Ctx(u).state = "EditExpenseStates:choose_payment_source"
    /\ LET expense_id == get(Ctx(u).data, "expense_id", None) IN
       IF expense_id \notin DOMAIN expenses
       THEN /\ SetCtx(u, clear)
            /\ answer' = Reply("expense:edit_payment_source", "expense not found")
            /\ UNCHANGED <<expenses, logs, compensate_buttons>>
       ELSE /\ BagCardinality(logs) < MaxLogs
            /\ expenses' = update_expense(expenses, expense_id,
                   payment_source_updates(expenses[expense_id], new_value))
            /\ SetCtx(u, clear)
            /\ answer' = Reply("expense:edit_payment_source", "payment source updated")
            /\ compensate_buttons' = ButtonsAfterCard(expenses', expense_id, role(u))
            /\ logs' = create_object_log(logs, expenses[expense_id].object_id,
                                         "expense_updated", expense_id, u)
    /\ UNCHANGED <<ServiceVars, users, advances, expenses_id_seq, tasks, objects>>

apply_expense_payment_source(u, new_value) ==
    /\ Ctx(u).state = "EditExpenseStates:choose_payment_source"
    /\ IF role(u) # "admin"
       THEN /\ answer' = Reply("expense:edit_payment_source", "insufficient rights")
            /\ UNCHANGED <<expenses, logs, fsm, compensate_buttons>>
       ELSE LET expense_id == get(Ctx(u).data, "expense_id", None) IN
            IF expense_id \notin DOMAIN expenses
            THEN /\ SetCtx(u, clear)
                 /\ answer' = Reply("expense:edit_payment_source", "expense not found")
                 /\ UNCHANGED <<expenses, logs, compensate_buttons>>
            ELSE /\ BagCardinality(logs) < MaxLogs
                 /\ expenses' = update_expense(expenses, expense_id,
                        payment_source_updates(expenses[expense_id], new_value))
                 /\ SetCtx(u, clear)
                 /\ answer' = Reply("expense:edit_payment_source", "payment source updated")
                 /\ compensate_buttons' = ButtonsAfterCard(expenses', expense_id, role(u))
                 /\ logs' = create_object_log(logs, expenses[expense_id].object_id,
                                              "expense_updated", expense_id, u)
    /\ UNCHANGED <<ServiceVars, users, advances, expenses_id_seq, tasks, objects>>

\* the texts sent in reply to "enter the new amount"
AmountTexts == {"12500", "12 500,50", "0", "-500", "abc"}

\* the handler of EditExpenseStates.waiting_value, for the field "amount"
apply_expense_edit(u, value) ==
    /\ Ctx(u).state = "EditExpenseStates:waiting_value"
    /\ get(Ctx(u).data, "field", None) = "amount"
    /\ LET expense_id == get(Ctx(u).data, "expense_id", None) IN
       IF role(u) # "admin" \/ "expense_id" \notin DOMAIN Ctx(u).data
       THEN /\ SetCtx(u, clear)
            /\ answer' = Reply("text", "insufficient rights or wrong state")
            /\ UNCHANGED <<expenses, logs>>
       ELSE IF ~DecimalOfText(value).ok
       THEN /\ answer' = Reply("text", "wrong format of the amount")
            /\ UNCHANGED <<expenses, logs, fsm>>
       ELSE IF expense_id \notin DOMAIN expenses
       THEN /\ SetCtx(u, clear)
            /\ answer' = Reply("text", "could not update the expense")
            /\ UNCHANGED <<expenses, logs>>
       ELSE /\ BagCardinality(logs) < MaxLogs
            /\ expenses' = update_expense(expenses, expense_id,
                               [amount |-> DecimalOfText(value).amount])
            /\ SetCtx(u, clear)
            /\ answer' = Reply("text", "changes saved")
            /\ logs' = create_object_log(logs, expenses[expense_id].object_id,
                                         "expense_updated", expense_id, u)
    /\ UNCHANGED <<ServiceVars, users, advances, expenses_id_seq, tasks, objects, compensate_buttons>>

-----------------------------------------------------------------------------
(* bot/handlers/objects.py: completing and restoring an object.  The        *)
(* callbacks carry an object id; a confirmation keyboard stays pressable    *)
(* on the screen, so they arrive for any id and in any status.              *)

\* the instants datetime.utcnow() yields
Clock == 1..2

complete_object(u, object_id, now) ==
    /\ IF role(u) # "admin"
       THEN /\ answer' = Reply("object:complete:confirm", "no rights")
            /\ UNCHANGED <<objects, logs>>
       ELSE IF object_id \notin DOMAIN objects
       THEN /\ answer' = Reply("object:complete:confirm", "completion failed")
            /\ UNCHANGED <<objects, logs>>
       ELSE /\ BagCardinality(logs) < MaxLogs
            /\ objects' = update_object_status(objects, object_id, "completed", now)
            /\ answer' = Reply("object:complete:confirm", "object completed")
            /\ logs' = create_object_log(logs, object_id, "object_completed",
                                         objects[object_id].name, u)
    /\ UNCHANGED <<ServiceVars, users, advances, expenses_id_seq, tasks, expenses, fsm, compensate_buttons>>

restore_object(u, object_id, now) ==
    /\ IF role(u) # "admin"
       THEN /\ answer' = Reply("object:restore:confirm", "no rights")
            /\ UNCHANGED <<objects, logs>>
       ELSE IF object_id \notin DOMAIN objects
       THEN /\ answer' = Reply("object:restore:confirm", "restoring failed")
            /\ UNCHANGED <<objects, logs>>
       ELSE /\ BagCardinality(logs) < MaxLogs
            /\ objects' = update_object_status(objects, object_id, "active", now)
            /\ answer' = Reply("object:restore:confirm", "object restored")
            /\ logs' = create_object_log(logs, object_id, "object_restored",
                                         objects[object_id].name, u)
    /\ UNCHANGED <<ServiceVars, users, advances, expenses_id_seq, tasks, expenses, fsm, compensate_buttons>>

-----------------------------------------------------------------------------
(* The users whose conversations and cards the model follows; the others    *)
(* only send /add_object and press the compensate button of a card          *)

Talking == {"admin"}

-----------------------------------------------------------------------------
(* SpecObjects: the add-object conversation on an empty database *)

ObjectsInit ==
    /\ calc_obj = NoObject
    /\ calc_out = NoOutput
    /\ DbInit

\* the texts sent in reply to the eight money steps
StepAmountTexts == {"12500", "-500", "abc"}

ObjectsNext ==
    \/ \E u \in Users : start_add_object(u)
    \/ \E u \in Talking : select_pdf_mode(u)
    \/ \E u \in Talking, parsed \in ParsedEstimates : handle_pdf_upload(u, parsed)
    \/ \E u \in Talking : select_manual_mode(u)
    \/ \E u \in Talking : process_name(u, "Garage")
    \/ \E u \in Talking : process_address(u, "Lesnaya 5")
    \/ \E u \in Talking : process_foreman(u, "Petrov")
    \/ \E u \in Talking, text \in DateTexts : process_dates(u, text)
    \/ \E u \in Talking : skip_step(u)
    \/ \E u \in Talking, text \in StepAmountTexts : process_prepayment(u, text)
    \/ \E u \in Talking, text \in StepAmountTexts : process_final_payment(u, text)
    \/ \E u \in Talking, text \in StepAmountTexts : process_estimate_s3(u, text)
    \/ \E u \in Talking, text \in StepAmountTexts : process_actual_s3_discount(u, text)
    \/ \E u \in Talking, text \in StepAmountTexts : process_estimate_works(u, text)
    \/ \E u \in Talking, text \in StepAmountTexts : process_estimate_supplies(u, text)
    \/ \E u \in Talking, text \in StepAmountTexts : process_estimate_overhead(u, text)
    \/ \E u \in Talking, text \in StepAmountTexts : process_estimate_transport(u, text)
    \/ \E u \in Talking, parsed \in ParsedCorrections : _apply_correction(u, parsed)
    \/ \E u \in Talking : cancel_creation(u)
    \/ \E u \in Talking : save_object(u)

SpecObjects == ObjectsInit /\ [][ObjectsNext]_vars

-----------------------------------------------------------------------------
(* SpecLifecycle: objects imported on an empty database, completed and      *)
(* restored                                                                 *)

LifecycleNext ==
    \/ \E u \in Users : start_add_object(u)
    \/ \E u \in Talking : select_pdf_mode(u)
    \/ \E u \in Talking, parsed \in ParsedSheets : handle_pdf_upload(u, parsed)
    \/ \E u \in Talking : save_object(u)
    \/ \E u \in Users, object_id \in ObjectIds, now \in Clock :
           complete_object(u, object_id, now)
    \/ \E u \in Users, object_id \in ObjectIds, now \in Clock :
           restore_object(u, object_id, now)

SpecLifecycle == ObjectsInit /\ [][LifecycleNext]_vars

-----------------------------------------------------------------------------
(* Spec: the events on the expenses of the objects saved so far, in any     *)
(* order                                                                    *)

\* the objects table once the admin has saved the imported sheets
RECURSIVE SavedObjects(_)
SavedObjects(sheets) ==
    IF sheets = {} THEN << >>
    ELSE LET sheet == CHOOSE x \in sheets : TRUE
         IN create_object(SavedObjects(sheets \ {sheet}), "admin", sheet)

Init ==
    /\ calc_obj = NoObject
    /\ calc_out = NoOutput
    /\ tasks = NoTasks
    /\ period_in = NoPeriod
    /\ period_out = NoOutput
    /\ objects = SavedObjects(ParsedSheets)
    /\ expenses = << >>
    /\ expenses_id_seq = 0
    /\ logs = EmptyBag
    /\ fsm = [u \in Users |-> [state |-> None, data |-> NoData]]
    /\ compensate_buttons = {}
    /\ advances = << >>
    /\ users = RegisteredUsers
    /\ answer = [event |-> None, text |-> None]

Next ==
    \/ \E u \in Talking, t \in AddExpenseButtons, o \in ObjectIds :
           start_add_expense(u, t, o)
    \/ \E u \in Talking, parsed \in ParsedExpenses : process_expense_text(u, parsed)
    \/ \E u \in Talking : confirm_expense(u)
    \/ \E u \in Talking, ps \in PaymentSource : select_payment_source(u, ps)
    \/ \E u \in Talking, saved \in BOOLEAN : process_expense_photo(u, saved)
    \/ \E u \in Talking : skip_expense_photo(u)
    \/ \E u \in Talking, e \in ExpenseIds : view_expense_detail(u, e)
    \/ \E u \in Users, e \in ExpenseIds : compensate_expense(u, e)
    \/ \E u \in Talking, e \in ExpenseIds : start_expense_edit(u, e)
    \/ \E u \in Talking, field \in EditFields : choose_expense_field(u, field)
    \/ \E u \in Talking, ps \in PaymentSource : apply_expense_payment_source(u, ps)

Spec == Init /\ [][Next]_vars

-----------------------------------------------------------------------------
(* SpecAmounts: the add-expense flows over whatever parse_expense_text      *)
(* hands back, and the admin's edits of the amount                          *)

AmountsNext ==
    \/ \E u \in Talking, t \in AddExpenseButtons, o \in ObjectIds :
           start_add_expense(u, t, o)
    \/ \E u \in Talking, parsed \in ParsedAmounts : process_expense_text(u, parsed)
    \/ \E u \in Talking : confirm_expense(u)
    \/ \E u \in Talking, ps \in PaymentSource : select_payment_source(u, ps)
    \/ \E u \in Talking, saved \in BOOLEAN : process_expense_photo(u, saved)
    \/ \E u \in Talking : skip_expense_photo(u)
    \/ \E u \in Talking, e \in ExpenseIds : start_expense_edit(u, e)
    \/ \E u \in Talking : choose_expense_field(u, "amount")
    \/ \E u \in Talking, value \in AmountTexts : apply_expense_edit(u, value)

SpecAmounts == Init /\ [][AmountsNext]_vars

-----------------------------------------------------------------------------
(* The compensation transition, under Spec *)

Compensable(e) ==
    /\ e \in DOMAIN expenses
    /\ expenses[e].payment_source = "personal"
    /\ expenses[e].compensation_status = "pending"

CompensationMarked == Reply("expense:compensate", "compensation marked")

\* C8: when an admin compensates an existing expense that is PERSONAL and
\* PENDING, the handler answers that the compensation is marked and the expense
\* becomes COMPENSATED with every other column, and every other row, as before.
C8_CompensatePending ==
    [][\A u \in Users, e \in ExpenseIds :
         (role(u) = "admin" /\ Compensable(e) /\ compensate_expense(u, e))
         => /\ answer' = CompensationMarked
            /\ expenses' = [expenses EXCEPT ![e].compensation_status = "compensated"]
            /\ expenses'[e].compensation_status = "compensated"]_vars

\* a personal expense compensated by the admin, with the log entry of it
C8_Witness ==
    /\ answer = CompensationMarked
    /\ \E e \in DOMAIN expenses :
          /\ expenses[e].payment_source = "personal"
          /\ expenses[e].compensation_status = "compensated"
          /\ BagCardinality(logs) = 1
          /\ \E l \in BagToSet(logs) :
                 l.action = "expense_compensated" /\ l.description = e

\* C9: compensating an expense that is already COMPENSATED is answered with an
\* error, appends no log entry and leaves the expenses table as it was.
C9_RecompensationRefused ==
    [][\A u \in Users, e \in ExpenseIds :
         (/\ e \in DOMAIN expenses
          /\ expenses[e].compensation_status = "compensated"
          /\ compensate_expense(u, e))
         => /\ answer' # CompensationMarked
            /\ logs' = logs
            /\ expenses' = expenses]_vars

\* C10: compensating an expense paid from the company card is answered with an
\* error and the expense keeps compensation_status NULL.
C10_CompanyExpenseRefused ==
    [][\A u \in Users, e \in ExpenseIds :
         (/\ e \in DOMAIN expenses
          /\ expenses[e].payment_source = "company"
          /\ compensate_expense(u, e))
         => /\ answer' # CompensationMarked
            /\ expenses'[e].compensation_status = None]_vars

-----------------------------------------------------------------------------
(* The pair (payment_source, compensation_status), under Spec *)

\* C11: in every reachable state an expense paid by the company has
\* compensation_status NULL.
C11_CompanyHasNoStatus ==
    \A e \in DOMAIN expenses :
        expenses[e].payment_source = "company"
            => expenses[e].compensation_status = None

\* object_logs holds an EXPENSE_COMPENSATED row of expense e: e has been
\* marked as compensated at some time
WasCompensated(e) ==
    \E l \in BagToSet(logs) :
        l.action = "expense_compensated" /\ l.description = e

\* C12: an expense that has once been marked as compensated is never PENDING
\* again, whatever is done to it afterwards.
C12_CompensatedIsTerminal ==
    \A e \in DOMAIN expenses :
        WasCompensated(e) => expenses[e].compensation_status # "pending"

\* the add-expense conversation of u ends by creating the expense
CreatesExpense(u) ==
    /\ Ctx(u).state = "AddExpenseStates:waiting_photo"
    /\ \/ \E saved \in BOOLEAN : process_expense_photo(u, saved)
       \/ skip_expense_photo(u)

\* C14: the expense the add-expense flow creates, with a photo or without, is
\* (PERSONAL, PENDING) when the foreman was chosen as payer and (COMPANY, NULL)
\* when the company was chosen; no other row changes.
C14_CreatedWithMatchingStatus ==
    [][\A u \in Talking :
         CreatesExpense(u) =>
             LET e == expenses_id_seq + 1
                 chosen == Ctx(u).data.selected_payment_source
             IN  /\ DOMAIN expenses' = DOMAIN expenses \cup {e}
                 /\ \A i \in DOMAIN expenses : expenses'[i] = expenses[i]
                 /\ expenses'[e].payment_source = chosen
                 /\ chosen = "personal" => expenses'[e].compensation_status = "pending"
                 /\ chosen = "company" => expenses'[e].compensation_status = None]_vars

\* an expense just created on the photo path with the foreman as payer
C14_Witness ==
    /\ answer = Reply("photo", "expense added")
    /\ \E e \in DOMAIN expenses :
          /\ expenses[e].photo_url # None
          /\ expenses[e].payment_source = "personal"
          /\ expenses[e].compensation_status = "pending"

-----------------------------------------------------------------------------
(* SpecConcurrent: compensate callbacks handled as concurrent tasks.        *)
(* dp.start_polling handles every update in a task of its own, each with    *)
(* its own session; a task gives way at every await of compensate_expense.  *)

\* the callback expense:compensate:<expense_id> of user u arrives: the role
\* check, lines 1494-1496; pending_on_arrival notes the row as it was then
compensate_expense_received(u, expense_id) ==
    /\ Len(tasks) < MaxTasks
    /\ expense_id \in compensate_buttons
    /\ LET task == [user |-> u, expense_id |-> expense_id,
                    pending_on_arrival |-> can_compensate(expenses[expense_id])]
       IN  IF role(u) # "admin"
           THEN /\ tasks' = Append(tasks, task @@ [pc |-> "done",
                                                    result |-> "insufficient rights"])
                /\ answer' = Reply("expense:compensate", "insufficient rights")
           ELSE /\ tasks' = Append(tasks, task @@ [pc |-> "update", result |-> None])
                /\ UNCHANGED answer
    /\ UNCHANGED <<ServiceVars, users, advances, expenses_id_seq, objects, expenses, logs, fsm, compensate_buttons>>

\* await update_compensation_status(...), lines 1504-1508
compensate_expense_update(t) ==
    /\ t \in DOMAIN tasks
    /\ tasks[t].pc = "update"
    /\ expenses' = update_compensation_status(expenses, tasks[t].expense_id, "compensated")
    /\ IF ~update_compensation_status_returns(expenses, tasks[t].expense_id)
       THEN /\ tasks' = [tasks EXCEPT ![t].pc = "done",
                                      ![t].result = "status update error"]
            /\ answer' = Reply("expense:compensate", "status update error")
       ELSE /\ tasks' = [tasks EXCEPT ![t].pc = "log"]
            /\ UNCHANGED answer
    /\ UNCHANGED <<ServiceVars, users, advances, expenses_id_seq, objects, logs, fsm, compensate_buttons>>

\* await _log_object_action(...), lines 1510-1516
compensate_expense_log(t) ==
    /\ t \in DOMAIN tasks
    /\ tasks[t].pc = "log"
    /\ logs' = create_object_log(logs, expenses[tasks[t].expense_id].object_id,
                                 "expense_compensated", tasks[t].expense_id,
                                 tasks[t].user)
    /\ tasks' = [tasks EXCEPT ![t].pc = "card"]
    /\ UNCHANGED <<ServiceVars, users, advances, expenses_id_seq, objects, expenses, fsm, compensate_buttons, answer>>

\* the card of the returned row and the answer, lines 1518-1530
compensate_expense_card(t) ==
    /\ t \in DOMAIN tasks
    /\ tasks[t].pc = "card"
    /\ compensate_buttons' = ButtonsAfterCard(
           update_compensation_status(expenses, tasks[t].expense_id, "compensated"),
           tasks[t].expense_id, role(tasks[t].user))
    /\ answer' = Reply("expense:compensate", "compensation marked")
    /\ tasks' = [tasks EXCEPT ![t].pc = "done", ![t].result = "compensation marked"]
    /\ UNCHANGED <<ServiceVars, users, advances, expenses_id_seq, objects, expenses, logs, fsm>>

TaskIds == 1..MaxTasks

\* the expenses table once the admin has added one expense paid by the foreman
AddedPersonalExpense ==
    {create_expense(<< >>, 0, 1, t, parsed.amount, parsed.description, parsed.date,
                    "admin", photo_url, "personal", new_compensation_status("personal")) :
        t \in ExpenseType, parsed \in ParsedExpenses, photo_url \in {None, "file"}}

\* that expense's card is on the admin's screen, no callback handled yet
ConcurrentInit ==
    /\ calc_obj = NoObject
    /\ calc_out = NoOutput
    /\ period_in = NoPeriod
    /\ period_out = NoOutput
    /\ objects = SavedObjects(ParsedSheets)
    /\ expenses \in AddedPersonalExpense
    /\ expenses_id_seq = 1
    /\ advances = << >>
    /\ users = RegisteredUsers
    /\ logs = EmptyBag
    /\ fsm = [u \in Users |-> [state |-> None, data |-> NoData]]
    /\ compensate_buttons =
           IF shows_compensate_button(expenses[1], "admin") THEN {1} ELSE {}
    /\ tasks = NoTasks
    /\ answer = Reply("expense:detail", _get_expense_status(expenses[1]))

ConcurrentNext ==
    \/ \E u \in Users, e \in ExpenseIds : compensate_expense_received(u, e)
    \/ \E t \in TaskIds : compensate_expense_update(t)
    \/ \E t \in TaskIds : compensate_expense_log(t)
    \/ \E t \in TaskIds : compensate_expense_card(t)

SpecConcurrent == ConcurrentInit /\ [][ConcurrentNext]_vars

Succeeded(t) == tasks[t].pc = "done" /\ tasks[t].result = "compensation marked"

\* C13: of two compensate requests for the same expense that both arrived
\* while it was PERSONAL and PENDING, at most one ends with the success answer,
\* and the expense gets at most one EXPENSE_COMPENSATED log row.
C13_OneConcurrentCompensationSucceeds ==
    \A t1, t2 \in DOMAIN tasks :
        (/\ t1 # t2
         /\ tasks[t1].expense_id = tasks[t2].expense_id
         /\ tasks[t1].pending_on_arrival
         /\ tasks[t2].pending_on_arrival)
        => /\ ~(Succeeded(t1) /\ Succeeded(t2))
           /\ \A l \in BagToSet(logs) :
                  (l.action = "expense_compensated"
                       /\ l.description = tasks[t1].expense_id)
                  => CopiesIn(l, logs) <= 1

-----------------------------------------------------------------------------
(* database/crud.py: the company expenses of a period.  A datetime is held  *)
(* as [year, month, day]; amounts are kopecks.  The tables are on the       *)
(* current schema (is_active, start_month, end_month present), which        *)
(* _ensure_company_recurring_schema establishes before every query.         *)

\* datetime a <= datetime b
DateLE(a, b) ==
    \/ a.year < b.year
    \/ a.year = b.year /\ a.month < b.month
    \/ a.year = b.year /\ a.month = b.month /\ a.day <= b.day

\* Python truth value of an Optional[int]; a NULL column is held as 0, which
\* the code's only test of these columns (truthiness) does not tell from NULL
Truthy(x) == x # 0

Max(a, b) == IF a >= b THEN a ELSE b

Min(a, b) == IF a <= b THEN a ELSE b

\* a variant that leaves out the expenses dated end_date itself
RECURSIVE one_time_total_before_end(_, _, _)
one_time_total_before_end(rows, start_date, end_date) ==
    IF rows = << >> THEN 0
    ELSE (IF DateLE(start_date, Head(rows).date) /\ DateLE(Head(rows).date, end_date)
             /\ Head(rows).date # end_date
          THEN Head(rows).amount ELSE 0)
         + one_time_total_before_end(Tail(rows), start_date, end_date)

\* SELECT coalesce(sum(amount), 0) ... WHERE date >= start_date AND date <= end_date
RECURSIVE one_time_total(_, _, _)
one_time_total(rows, start_date, end_date) ==
    IF rows = << >> THEN 0
    ELSE (IF DateLE(start_date, Head(rows).date) /\ DateLE(Head(rows).date, end_date)
          THEN Head(rows).amount ELSE 0)
         + one_time_total(Tail(rows), start_date, end_date)

IsActive(template) == template.is_active

\* a variant of the filter that keeps every template
active_templates_unfiltered(rows) == rows

\* SELECT ... WHERE is_active == True
active_templates(rows) == SelectSeq(rows, IsActive)

period_start(start_date) == start_date.year * 12 + start_date.month

period_end(end_date) == end_date.year * 12 + end_date.month

template_start(template) == template.start_year * 12 + template.start_month

\* a variant that takes every template as open-ended
template_end_open(template) == 0

template_end(template) ==
    IF Truthy(template.end_year) /\ Truthy(template.end_month)
    THEN template.end_year * 12 + template.end_month
    ELSE 0

\* a variant that counts from the first month of the query
first_month_of_period(template, start_date) == period_start(start_date)

first_month(template, start_date) == Max(template_start(template), period_start(start_date))

last_month(template, end_date) ==
    IF Truthy(template_end(template))
    THEN Min(template_end(template), period_end(end_date))
    ELSE period_end(end_date)

\* a variant that leaves out the last month
months_count_exclusive(first, last) == last - first

months_count(first, last) == last - first + 1

\* the loop over the templates, lines 832-847
RECURSIVE recurring_total(_, _, _)
recurring_total(templates, start_date, end_date) ==
    IF templates = << >> THEN 0
    ELSE LET template == Head(templates)
             first == first_month(template, start_date)
             last == last_month(template, end_date)
         IN  (IF first > last THEN 0
              ELSE template.amount * months_count(first, last))
             + recurring_total(Tail(templates), start_date, end_date)

get_company_expenses_for_period(company_expenses, recurring, start_date, end_date) ==
    LET one_time == one_time_total(company_expenses, start_date, end_date)
        monthly == recurring_total(active_templates(recurring), start_date, end_date)
    IN  [one_time |-> one_time, recurring |-> monthly, total |-> one_time + monthly]

\* the sequences that list every element of S once in ascending order of
\* its key: the outcomes of ORDER BY, rows with equal keys in either order
Orderings(S, key) ==
    {s \in [1..Cardinality(S) -> S] :
        /\ \A i, j \in DOMAIN s : i # j => s[i] # s[j]
        /\ \A i, j \in DOMAIN s : i < j => key[s[i]] <= key[s[j]]}

\* the ids (positions) of the active templates of a category
ActiveOfCategory(rows, category) ==
    {i \in DOMAIN rows : rows[i].is_active /\ rows[i].category = category}

RECURSIVE SumOfIds(_, _)
\* sum(amount) over a group of rows
SumOfIds(rows, I) ==
    IF I = {} THEN 0
    ELSE LET i == CHOOSE j \in I : TRUE
         IN  rows[i].amount + SumOfIds(rows, I \ {i})

\* GROUP BY category over the active templates: (category, sum, count)
RecurringCategoryGroups(rows) ==
    {[category |-> rows[i].category,
      total |-> SumOfIds(rows, ActiveOfCategory(rows, rows[i].category)),
      count |-> Cardinality(ActiveOfCategory(rows, rows[i].category))] :
        i \in {j \in DOMAIN rows : rows[j].is_active}}

get_company_recurring_categories(rows) ==
    LET groups == RecurringCategoryGroups(rows)
    IN  \* ORDER BY sum(amount) DESC
        Orderings(groups, [g \in groups |-> -g.total])

\* the lists get_company_recurring_by_category may return: the ids of the
\* active templates of the category, ORDER BY start_year DESC,
\* start_month DESC, day_of_month ASC (a day of the month is below 32)
get_company_recurring_by_category(rows, category) ==
    LET ids == ActiveOfCategory(rows, category)
    IN  Orderings(ids, [i \in ids |->
            -(rows[i].start_year * 12 + rows[i].start_month) * 32
                + rows[i].day_of_month])

-----------------------------------------------------------------------------
(* SpecPeriod: the period services applied to every input *)

Date(y, m, d) == [year |-> y, month |-> m, day |-> d]

Template(category, amount, start, end, is_active) ==
    [category |-> category, amount |-> amount, day_of_month |-> 1,
     start_month |-> start.month, start_year |-> start.year,
     end_month |-> end.month, end_year |-> end.year, is_active |-> is_active]

TemplateStarts == {[year |-> 2024, month |-> 11], [year |-> 2025, month |-> 3]}

\* end_year and end_month NULL
NoEnd == [year |-> 0, month |-> 0]

TemplateEnds == {NoEnd, [year |-> 2024, month |-> 12], [year |-> 2025, month |-> 3]}

\* the templates of one category, none ended before its own first month
TotalsTemplates ==
    {t \in {Template("rent", 300000, start, end, is_active) :
                start \in TemplateStarts, end \in TemplateEnds,
                is_active \in BOOLEAN} :
        \/ t.end_year = 0
        \/ t.start_year * 12 + t.start_month <= t.end_year * 12 + t.end_month}

ListingTemplates ==
    {Template(category, amount, start, NoEnd, is_active) :
        category \in {"rent", "internet"}, amount \in {50000, 300000},
        start \in TemplateStarts, is_active \in BOOLEAN}

CompanyExpenseRows ==
    [category : {"fuel"}, amount : {50000},
     date : {Date(2025, 1, 1), Date(2025, 3, 31), Date(2025, 4, 1)}]

QueryStarts == {Date(2024, 12, 1), Date(2025, 1, 1), Date(2025, 3, 15)}

QueryEnds == {Date(2024, 12, 31), Date(2025, 1, 1), Date(2025, 3, 31)}

TotalsInputs ==
    [kind : {"totals"},
     company_expenses : SeqsUpTo(CompanyExpenseRows, MaxCompanyExpenses),
     recurring : SeqsUpTo(TotalsTemplates, MaxTemplates),
     start_date : QueryStarts, end_date : QueryEnds]

\* a range [start_date, end_date] with a date that ends its first part
SplitInputs ==
    [kind : {"split"},
     company_expenses : {<< >>},
     recurring : SeqsUpTo(TotalsTemplates, MaxTemplates),
     start_date : {Date(2024, 11, 1), Date(2025, 1, 1)},
     split_date : {Date(2024, 12, 31), Date(2025, 6, 30)},
     end_date : {Date(2025, 3, 31), Date(2025, 12, 31)}]

ListingInputs ==
    [kind : {"listing"},
     recurring : SeqsUpTo(ListingTemplates, MaxTemplates),
     category : {"rent", "internet"}]

\* the first day of the month after that of date d
FirstOfNextMonth(d) ==
    IF d.month = 12 THEN Date(d.year + 1, 1, 1) ELSE Date(d.year, d.month + 1, 1)

CallCompanyExpenses ==
    /\ period_in.kind = "totals"
    /\ period_out = NoOutput
    /\ period_out' = [kind |-> "totals",
                      totals |-> get_company_expenses_for_period(
                          period_in.company_expenses, period_in.recurring,
                          period_in.start_date, period_in.end_date)]
    /\ UNCHANGED <<calc_obj, calc_out, period_in, DbVars>>

\* the range queried whole and in its two adjacent parts
CallCompanyExpensesSplit ==
    /\ period_in.kind = "split"
    /\ period_out = NoOutput
    /\ period_out' =
           [kind |-> "split",
            first |-> get_company_expenses_for_period(
                period_in.company_expenses, period_in.recurring,
                period_in.start_date, period_in.split_date),
            second |-> get_company_expenses_for_period(
                period_in.company_expenses, period_in.recurring,
                FirstOfNextMonth(period_in.split_date), period_in.end_date),
            whole |-> get_company_expenses_for_period(
                period_in.company_expenses, period_in.recurring,
                period_in.start_date, period_in.end_date)]
    /\ UNCHANGED <<calc_obj, calc_out, period_in, DbVars>>

CallRecurringCategories ==
    /\ period_in.kind = "listing"
    /\ period_out = NoOutput
    /\ \E rows \in get_company_recurring_categories(period_in.recurring) :
           period_out' = [kind |-> "categories", rows |-> rows]
    /\ UNCHANGED <<calc_obj, calc_out, period_in, DbVars>>

CallRecurringByCategory ==
    /\ period_in.kind = "listing"
    /\ period_out = NoOutput
    /\ \E ids \in get_company_recurring_by_category(period_in.recurring,
                                                    period_in.category) :
           period_out' = [kind |-> "by_category", ids |-> ids]
    /\ UNCHANGED <<calc_obj, calc_out, period_in, DbVars>>

-----------------------------------------------------------------------------
(* bot/services/report_generator.py: generate_period_report.  The report   *)
(* is held as the figures it prints; the Optional[dict] argument is a       *)
(* sequence of at most one dict, whose amounts are kopecks.                 *)

NoCompanyData == [one_time |-> 0, recurring |-> 0, total |-> 0]

\* company_expenses or {"one_time": 0, "recurring": 0, "total": 0}
company_data(company_expenses) ==
    IF company_expenses = << >> THEN NoCompanyData ELSE company_expenses[1]

RECURSIVE sum_total_income(_)
\* total_income += data['total_income'] over the objects
sum_total_income(objs) ==
    IF objs = << >> THEN 0
    ELSE calculate_profit_data(Head(objs)).total_income + sum_total_income(Tail(objs))

RECURSIVE sum_total_profit(_)
\* total_profit += data['total_profit'] over the objects
sum_total_profit(objs) ==
    IF objs = << >> THEN 0
    ELSE calculate_profit_data(Head(objs)).total_profit + sum_total_profit(Tail(objs))

\* a variant that leaves the company's expenses out of the profit
adjusted_profit_without_company(total_profit_sum, company_total) == total_profit_sum

adjusted_profit(total_profit_sum, company_total) == total_profit_sum - Dec(company_total)

avg_profitability(adjusted, total_profit_sum, total_income_sum) ==
    IF total_income_sum > 0
    THEN DecimalTimes100(DecimalDiv(adjusted, total_income_sum))
    ELSE DecimalZero

generate_period_report(objs, company_expenses) ==
    LET data == company_data(company_expenses)
        income == sum_total_income(objs)
        profit == sum_total_profit(objs)
        adjusted == adjusted_profit(profit, data.total)
    IN  IF objs = << >> /\ data.total = 0
        THEN [kind |-> "no_data"]
        ELSE [kind |-> "report",
              objects_count |-> Len(objs),
              total_income |-> income,
              company_total |-> Dec(data.total),
              adjusted_profit |-> adjusted,
              avg_profitability |-> avg_profitability(adjusted, profit, income),
              company_one_time |-> Dec(data.one_time),
              company_recurring |-> Dec(data.recurring),
              objects |-> [i \in DOMAIN objs |->
                              [total_profit |-> calculate_profit_data(objs[i]).total_profit,
                               profitability |-> calculate_profit_data(objs[i]).profitability]]]

\* objects of a period: one whose profit is 10000, one whose profit is
\* -2000, one with an income of 15000 and a profit of 3000, and one that an
\* imported estimate left with a prepayment of -1.00
ReportObjects ==
    {[NoObject EXCEPT !.estimate_supplies = 1000000],
     [NoObject EXCEPT !.expenses = <<[type |-> "supplies", amount |-> 200000,
                                      payment_source |-> "company",
                                      compensation_status |-> None]>>],
     [NoObject EXCEPT !.prepayment = 1500000, !.estimate_overhead = 300000],
     [NoObject EXCEPT !.prepayment = -100, !.estimate_overhead = 300000]}

\* the totals get_company_expenses_for_period hands to the report
ReportCompanyTotals ==
    {NoCompanyData,
     [one_time |-> 100000, recurring |-> 200000, total |-> 300000],
     [one_time |-> 0, recurring |-> 600000, total |-> 600000]}

ReportInputs ==
    [kind : {"report"},
     objects : SeqsUpTo(ReportObjects, MaxReportObjects),
     company_expenses : SeqsUpTo(ReportCompanyTotals, 1)]

CallPeriodReport ==
    /\ period_in.kind = "report"
    /\ period_out = NoOutput
    /\ period_out' = [kind |-> "period_report",
                      report |-> generate_period_report(period_in.objects,
                                                        period_in.company_expenses)]
    /\ UNCHANGED <<calc_obj, calc_out, period_in, DbVars>>

-----------------------------------------------------------------------------
(* database/crud.py: get_objects_by_period.  A NULL datetime column is held *)
(* as NullDate; a comparison with NULL is not true, as in SQL.              *)

NullDate == [year |-> 0, month |-> 0, day |-> 0]

\* column >= start_date AND column <= end_date
DateBetween(d, start_date, end_date) ==
    /\ d # NullDate
    /\ DateLE(start_date, d)
    /\ DateLE(d, end_date)

\* a variant of the WHERE clause that looks at start_date only
in_period_by_start_only(row, start_date, end_date) ==
    DateBetween(row.start_date, start_date, end_date)

\* the WHERE clause: or_(and_(start_date ...), and_(completed_at ...))
in_period(row, start_date, end_date) ==
    \/ DateBetween(row.start_date, start_date, end_date)
    \/ DateBetween(row.completed_at, start_date, end_date)

\* the ids (positions, in the order of creation) of the objects selected,
\* ORDER BY created_at DESC
get_objects_by_period(rows, start_date, end_date) ==
    LET ids == {i \in DOMAIN rows : in_period(rows[i], start_date, end_date)}
    IN  Orderings(ids, [i \in ids |-> -i])

PeriodObjectRows ==
    [start_date : {NullDate, Date(2025, 1, 1), Date(2025, 2, 10), Date(2025, 4, 1)},
     completed_at : {NullDate, Date(2024, 12, 31), Date(2025, 2, 20), Date(2025, 3, 31)}]

ObjectsByPeriodInputs ==
    [kind : {"objects"},
     rows : SeqsUpTo(PeriodObjectRows, MaxPeriodObjects),
     start_date : {Date(2025, 1, 1), Date(2025, 2, 1)},
     end_date : {Date(2025, 2, 28), Date(2025, 3, 31)}]

CallObjectsByPeriod ==
    /\ period_in.kind = "objects"
    /\ period_out = NoOutput
    /\ \E ids \in get_objects_by_period(period_in.rows, period_in.start_date,
                                        period_in.end_date) :
           period_out' = [kind |-> "objects_by_period", ids |-> ids]
    /\ UNCHANGED <<calc_obj, calc_out, period_in, DbVars>>

PeriodInputs ==
    TotalsInputs \cup SplitInputs \cup ListingInputs \cup ReportInputs
        \cup ObjectsByPeriodInputs

PeriodInit ==
    /\ period_in \in PeriodInputs
    /\ period_out = NoOutput
    /\ calc_obj = NoObject
    /\ calc_out = NoOutput
    /\ tasks = NoTasks
    /\ objects = << >>
    /\ expenses = << >>
    /\ expenses_id_seq = 0
    /\ logs = EmptyBag
    /\ fsm = [u \in Users |-> [state |-> None, data |-> NoData]]
    /\ compensate_buttons = {}
    /\ advances = << >>
    /\ users = RegisteredUsers
    /\ answer = [event |-> None, text |-> None]

PeriodNext ==
    \/ CallCompanyExpenses
    \/ CallCompanyExpensesSplit
    \/ CallRecurringCategories
    \/ CallRecurringByCategory
    \/ CallPeriodReport
    \/ CallObjectsByPeriod

SpecPeriod == PeriodInit /\ [][PeriodNext]_vars

-----------------------------------------------------------------------------
(* The claims about the company expenses of a period, under SpecPeriod *)

\* the calendar months, as year * 12 + month, of the query range that lie
\* in the template's interval [start, end or unbounded]
MonthsOfTemplateInRange(template, start_date, end_date) ==
    {m \in (start_date.year * 12 + start_date.month) ..
           (end_date.year * 12 + end_date.month) :
        /\ template.start_year * 12 + template.start_month <= m
        /\ \/ template.end_year = 0
           \/ m <= template.end_year * 12 + template.end_month}

RECURSIVE SumOfOccurrences(_, _, _, _)
\* the sum, over the templates at positions I, of amount * number of months
SumOfOccurrences(rows, I, start_date, end_date) ==
    IF I = {} THEN 0
    ELSE LET i == CHOOSE j \in I : TRUE
         IN  rows[i].amount
                 * Cardinality(MonthsOfTemplateInRange(rows[i], start_date, end_date))
             + SumOfOccurrences(rows, I \ {i}, start_date, end_date)

ActiveIds(rows) == {i \in DOMAIN rows : rows[i].is_active}

\* C15: the recurring total of a query range is the sum, over the active
\* templates, of amount * N, N being the number of calendar months in the
\* intersection of the template's interval with the months of the range
C15_RecurringIsAmountTimesMonths ==
    period_out.kind = "totals" =>
        period_out.totals.recurring =
            SumOfOccurrences(period_in.recurring, ActiveIds(period_in.recurring),
                             period_in.start_date, period_in.end_date)

\* a range of three months that holds an active template ended in its last
\* month and another one that ended before the range
C15_Witness ==
    /\ period_out.kind = "totals"
    /\ Len(period_in.recurring) = 2
    /\ \A i \in 1..2 : period_in.recurring[i].is_active
    /\ period_in.recurring[1].end_year = 2025
    /\ period_in.recurring[2].end_year = 2024
    /\ Cardinality(MonthsOfTemplateInRange(period_in.recurring[1],
                       period_in.start_date, period_in.end_date)) = 3
    /\ period_out.totals.recurring = 900000

\* the split date ends a first part that is followed by a non-empty second
\* part: start month <= split month < end month
SplitsAtMonthBoundary(in) ==
    /\ in.start_date.year * 12 + in.start_date.month
           <= in.split_date.year * 12 + in.split_date.month
    /\ in.split_date.year * 12 + in.split_date.month
           < in.end_date.year * 12 + in.end_date.month

\* C16: recurring totals are additive over adjacent month ranges: the
\* recurring total of a range is the sum of the recurring totals of the two
\* parts that any month boundary inside it splits it into
C16_RecurringAdditive ==
    (period_out.kind = "split" /\ SplitsAtMonthBoundary(period_in)) =>
        period_out.first.recurring + period_out.second.recurring
            = period_out.whole.recurring

\* a range split so that an active template falls due in both parts
C16_Witness ==
    /\ period_out.kind = "split"
    /\ SplitsAtMonthBoundary(period_in)
    /\ period_out.first.recurring > 0
    /\ period_out.second.recurring > 0
    /\ period_out.whole.recurring > period_out.first.recurring

\* the template's last month is before the first month of the query range
EndsBeforeRange(template, start_date) ==
    /\ template.end_year # 0
    /\ template.end_year * 12 + template.end_month
           < start_date.year * 12 + start_date.month

\* the template's first month is after the last month of the query range
StartsAfterRange(template, end_date) ==
    template.start_year * 12 + template.start_month
        > end_date.year * 12 + end_date.month

\* the template's first month is the last month of the query range
StartsInLastMonth(template, end_date) ==
    template.start_year * 12 + template.start_month
        = end_date.year * 12 + end_date.month

\* the query of 01.2025 - 03.2025 over one open-ended template of 3000
\* that starts in 03.2025
Scenario17 ==
    /\ period_in.kind = "totals"
    /\ period_in.recurring = <<Template("rent", 300000, [year |-> 2025, month |-> 3], NoEnd, TRUE)>>
    /\ period_in.start_date = Date(2025, 1, 1)
    /\ period_in.end_date = Date(2025, 3, 31)

\* C17: a template that ended before the query range or starts after it
\* contributes 0 and a template that starts in the last month of the range
\* contributes its amount once: where every active template is of one of
\* these kinds the recurring total is the sum of the amounts of those that
\* start in the last month, and the scenario yields 3000
C17_BoundaryTemplates ==
    period_out.kind = "totals" =>
        LET rows == period_in.recurring
            Outside == {i \in ActiveIds(rows) :
                           \/ EndsBeforeRange(rows[i], period_in.start_date)
                           \/ StartsAfterRange(rows[i], period_in.end_date)}
            Last == {i \in ActiveIds(rows) :
                        StartsInLastMonth(rows[i], period_in.end_date)}
        IN  /\ (ActiveIds(rows) = Outside \cup Last) =>
                    period_out.totals.recurring = SumOfIds(rows, Last)
            /\ Scenario17 => period_out.totals.recurring = 300000

\* the scenario has been queried
C17_Witness ==
    /\ period_out.kind = "totals"
    /\ Scenario17
    /\ period_out.totals.recurring = 300000

\* a query over an ended template and a template not yet started
C17_WitnessOutside ==
    /\ period_out.kind = "totals"
    /\ Len(period_in.recurring) = 2
    /\ \A i \in 1..2 : period_in.recurring[i].is_active
    /\ EndsBeforeRange(period_in.recurring[1], period_in.start_date)
    /\ StartsAfterRange(period_in.recurring[2], period_in.end_date)
    /\ period_out.totals.recurring = 0

\* a date as the number yyyymmdd
DayNumber(d) == d.year * 10000 + d.month * 100 + d.day

\* the one-off expenses dated within [start_date, end_date], ends included
DatedWithin(rows, start_date, end_date) ==
    {i \in DOMAIN rows :
        /\ DayNumber(start_date) <= DayNumber(rows[i].date)
        /\ DayNumber(rows[i].date) <= DayNumber(end_date)}

\* C18: one_time is the sum of the amounts of the one-off company expenses
\* dated within [start_date, end_date], both ends included (0 when there is
\* none), and total is one_time + recurring
C18_OneTimeAndTotal ==
    period_out.kind = "totals" =>
        /\ period_out.totals.one_time =
               SumOfIds(period_in.company_expenses,
                        DatedWithin(period_in.company_expenses,
                                    period_in.start_date, period_in.end_date))
        /\ period_out.totals.total =
               period_out.totals.one_time + period_out.totals.recurring

\* an expense dated the last day of the range, counted next to a recurring
\* total
C18_Witness ==
    /\ period_out.kind = "totals"
    /\ \E i \in DOMAIN period_in.company_expenses :
           period_in.company_expenses[i].date = period_in.end_date
    /\ period_out.totals.one_time = 50000
    /\ period_out.totals.recurring > 0
    /\ period_out.totals.total = 50000 + period_out.totals.recurring

\* no expense is dated within the range
C18_WitnessNone ==
    /\ period_out.kind = "totals"
    /\ period_in.company_expenses # << >>
    /\ DatedWithin(period_in.company_expenses,
                   period_in.start_date, period_in.end_date) = {}
    /\ period_out.totals.one_time = 0

InactiveIds(rows) == {i \in DOMAIN rows : ~rows[i].is_active}

\* the positions of the templates of a category that are not inactive
CountedOfCategory(rows, category) ==
    {i \in DOMAIN rows \ InactiveIds(rows) : rows[i].category = category}

\* C19: a template with is_active = false contributes 0 to the recurring
\* total, is not counted in the recurring category totals (a category of
\* inactive templates only is not listed) and is not in the listing of its
\* category
C19_InactiveTemplatesLeftOut ==
    /\ period_out.kind = "totals" =>
           period_out.totals.recurring =
               SumOfOccurrences(period_in.recurring,
                                DOMAIN period_in.recurring
                                    \ InactiveIds(period_in.recurring),
                                period_in.start_date, period_in.end_date)
    /\ period_out.kind = "categories" =>
           /\ {period_out.rows[k].category : k \in DOMAIN period_out.rows}
                  = {period_in.recurring[i].category :
                         i \in DOMAIN period_in.recurring
                                   \ InactiveIds(period_in.recurring)}
           /\ \A k \in DOMAIN period_out.rows :
                  LET counted == CountedOfCategory(period_in.recurring,
                                                   period_out.rows[k].category)
                  IN  /\ period_out.rows[k].total
                             = SumOfIds(period_in.recurring, counted)
                      /\ period_out.rows[k].count = Cardinality(counted)
    /\ period_out.kind = "by_category" =>
           {period_out.ids[k] : k \in DOMAIN period_out.ids}
               = CountedOfCategory(period_in.recurring, period_in.category)

\* the category totals of a table that holds an active and an inactive
\* template of the one category listed
C19_Witness ==
    /\ period_out.kind = "categories"
    /\ Len(period_out.rows) = 1
    /\ \E i \in InactiveIds(period_in.recurring) :
           period_in.recurring[i].category = period_out.rows[1].category
    /\ period_out.rows[1].count = 1

\* a recurring total of 0 over a table of inactive templates in range
C19_WitnessTotals ==
    /\ period_out.kind = "totals"
    /\ period_in.recurring # << >>
    /\ \E i \in InactiveIds(period_in.recurring) :
           MonthsOfTemplateInRange(period_in.recurring[i],
               period_in.start_date, period_in.end_date) # {}
    /\ period_out.totals.recurring = 0

\* a listing of a category that leaves out an inactive template of it
C19_WitnessListing ==
    /\ period_out.kind = "by_category"
    /\ Len(period_out.ids) = 1
    /\ \E i \in InactiveIds(period_in.recurring) :
           period_in.recurring[i].category = period_in.category

-----------------------------------------------------------------------------
(* The claims about the period report, under SpecPeriod *)

PeriodReported ==
    /\ period_out.kind = "period_report"
    /\ period_out.report.kind = "report"

RECURSIVE SumOfProfits(_, _)
\* the sum of the total_profit of the objects at positions I
SumOfProfits(objs, I) ==
    IF I = {} THEN 0
    ELSE LET i == CHOOSE j \in I : TRUE
         IN  calculate_profit_data(objs[i]).total_profit + SumOfProfits(objs, I \ {i})

RECURSIVE SumOfIncomes(_, _)
\* the sum of the total_income of the objects at positions I
SumOfIncomes(objs, I) ==
    IF I = {} THEN 0
    ELSE LET i == CHOOSE j \in I : TRUE
         IN  calculate_profit_data(objs[i]).total_income + SumOfIncomes(objs, I \ {i})

\* objects with profits of 10000 and -2000, company overhead of 3000
Scenario20 ==
    /\ period_in.kind = "report"
    /\ Len(period_in.objects) = 2
    /\ calculate_profit_data(period_in.objects[1]).total_profit = Dec(1000000)
    /\ calculate_profit_data(period_in.objects[2]).total_profit = -Dec(200000)
    /\ period_in.company_expenses # << >>
    /\ period_in.company_expenses[1].total = 300000

\* C20: the overall profit of the period report is the sum of the objects'
\* total_profit less the company overhead total, and its overall income is
\* the sum of the objects' total_income; profits of 10000 and -2000 with an
\* overhead of 3000 give 5000
C20_OverallProfitLessOverhead ==
    PeriodReported =>
        /\ period_out.report.adjusted_profit =
               SumOfProfits(period_in.objects, DOMAIN period_in.objects)
                   - period_out.report.company_total
        /\ period_out.report.company_total =
               Dec(company_data(period_in.company_expenses).total)
        /\ period_out.report.total_income =
               SumOfIncomes(period_in.objects, DOMAIN period_in.objects)
        /\ Scenario20 => period_out.report.adjusted_profit = Dec(500000)

\* the report of the scenario
C20_Witness ==
    /\ PeriodReported
    /\ Scenario20
    /\ period_out.report.adjusted_profit = Dec(500000)

\* C21 as stated: the average profitability of the period report is 0 when
\* the summed total_income is 0, nothing being raised whatever the sign of
\* the adjusted profit, and otherwise is adjusted_profit / total_income * 100
C21_AvgProfitabilityAsStated ==
    PeriodReported =>
        LET r == period_out.report IN
        /\ r.avg_profitability.exc = None
        /\ r.total_income = 0 => r.avg_profitability = DecimalZero
        /\ r.total_income # 0 =>
               r.avg_profitability =
                   DecimalTimes100(DecimalDiv(r.adjusted_profit, r.total_income))

\* a date that is set and lies in the window, both ends included
InWindow(d, start_date, end_date) ==
    /\ d.year # 0
    /\ DayNumber(start_date) <= DayNumber(d)
    /\ DayNumber(d) <= DayNumber(end_date)

\* the objects that belong to the window of the query
BelongingToPeriod ==
    {i \in DOMAIN period_in.rows :
        \/ InWindow(period_in.rows[i].start_date,
                    period_in.start_date, period_in.end_date)
        \/ InWindow(period_in.rows[i].completed_at,
                    period_in.start_date, period_in.end_date)}

\* C22: get_objects_by_period(start, end) returns exactly the objects with
\* start <= start_date <= end or start <= completed_at <= end, each once; an
\* object whose two dates are both null or both outside is not returned
C22_ObjectsOfPeriod ==
    period_out.kind = "objects_by_period" =>
        /\ {period_out.ids[k] : k \in DOMAIN period_out.ids} = BelongingToPeriod
        /\ Len(period_out.ids) = Cardinality(BelongingToPeriod)

\* a query over an object that matches on both dates and one with no dates
C22_Witness ==
    /\ period_out.kind = "objects_by_period"
    /\ Len(period_in.rows) = 2
    /\ InWindow(period_in.rows[1].start_date, period_in.start_date, period_in.end_date)
    /\ InWindow(period_in.rows[1].completed_at, period_in.start_date, period_in.end_date)
    /\ period_in.rows[2].start_date = NullDate
    /\ period_in.rows[2].completed_at = NullDate
    /\ period_out.ids = <<1>>

\* an object returned for its completion date alone, at the end of the window
C22_WitnessCompleted ==
    /\ period_out.kind = "objects_by_period"
    /\ \E k \in DOMAIN period_out.ids :
           /\ period_in.rows[period_out.ids[k]].start_date = Date(2025, 4, 1)
           /\ period_in.rows[period_out.ids[k]].completed_at = period_in.end_date

-----------------------------------------------------------------------------
(* The claim about the status of the objects, under SpecLifecycle *)

\* the admin's confirmation that sets the status of object i to st is
\* possible in this state
CanBecome(i, st) ==
    IF st = "completed"
    THEN ENABLED (\E now \in Clock : complete_object("admin", i, now)
                                        /\ objects'[i].status = "completed")
    ELSE ENABLED (\E now \in Clock : restore_object("admin", i, now)
                                        /\ objects'[i].status = "active")

\* C23: an object is created with status ACTIVE; completing it sets
\* COMPLETED; restoring a COMPLETED object sets ACTIVE again; the status is
\* always ACTIVE or COMPLETED; and COMPLETED is not terminal: in every
\* reachable state (with room left in the log, the bound of the model) each
\* object can be completed and can be restored by the admin's next step
C23_ObjectLifecycle ==
    /\ [](\A i \in DOMAIN objects :
              /\ objects[i].status \in {"active", "completed"}
              /\ BagCardinality(logs) < MaxLogs =>
                     CanBecome(i, "completed") /\ CanBecome(i, "active"))
    /\ [][/\ \A i \in DOMAIN objects' \ DOMAIN objects :
                 objects'[i].status = "active"
          /\ \A i \in DOMAIN objects, now \in Clock :
                 /\ complete_object("admin", i, now) =>
                        objects'[i].status = "completed"
                 /\ (objects[i].status = "completed"
                         /\ restore_object("admin", i, now)) =>
                        objects'[i].status = "active"]_vars

\* an object created, completed and restored is ACTIVE again
C23_Witness ==
    /\ 1 \in DOMAIN objects
    /\ objects[1].status = "active"
    /\ objects[1].completed_at = 0
    /\ CopiesIn([object_id |-> 1, action |-> "object_completed",
                 description |-> objects[1].name, user_id |-> "admin"], logs) = 1
    /\ CopiesIn([object_id |-> 1, action |-> "object_restored",
                 description |-> objects[1].name, user_id |-> "admin"], logs) = 1

-----------------------------------------------------------------------------
(* The claim about completed_at, under SpecLifecycle *)

\* the day of an instant of the clock; no instant for NULL
InstantDate(instant) ==
    CASE instant = 0 -> NullDate
      [] instant = 1 -> Date(2025, 2, 20)
      [] OTHER -> Date(2025, 3, 31)

\* the columns get_objects_by_period looks at, of an object that started on
\* start_date (NullDate when the dates were left for later)
PeriodRow(row, start_date) ==
    [start_date |-> start_date, completed_at |-> InstantDate(row.completed_at)]

StartDates == {NullDate, Date(2025, 1, 1), Date(2025, 2, 10), Date(2025, 4, 1)}
PeriodStarts == {Date(2025, 1, 1), Date(2025, 2, 1)}
PeriodEnds == {Date(2025, 2, 28), Date(2025, 3, 31)}

\* C35: after any creations, completions and restorings, completed_at of an
\* object is not NULL exactly when its status is COMPLETED; restoring clears
\* completed_at, so a restored (ACTIVE) object is selected for a period
\* exactly when its start_date lies in the period
C35_CompletedAtIffCompleted ==
    /\ [](\A i \in DOMAIN objects :
              /\ objects[i].completed_at # 0 <=> objects[i].status = "completed"
              /\ objects[i].status = "active" =>
                     \A sd \in StartDates, s \in PeriodStarts, e \in PeriodEnds :
                         in_period(PeriodRow(objects[i], sd), s, e)
                             <=> DateBetween(sd, s, e))
    /\ [][\A i \in DOMAIN objects, now \in Clock :
              (objects[i].status = "completed" /\ restore_object("admin", i, now)) =>
                  objects'[i].completed_at = 0]_vars

\* an object completed within a period and restored afterwards: it was
\* selected through completed_at and, restored, is selected no more
C35_Witness ==
    /\ 1 \in DOMAIN objects
    /\ objects[1].status = "active"
    /\ objects[1].completed_at = 0
    /\ CopiesIn([object_id |-> 1, action |-> "object_restored",
                 description |-> objects[1].name, user_id |-> "admin"], logs) = 1
    /\ ~ in_period(PeriodRow(objects[1], Date(2025, 4, 1)),
                   Date(2025, 2, 1), Date(2025, 2, 28))
    /\ in_period(PeriodRow([objects[1] EXCEPT !.completed_at = 1], Date(2025, 4, 1)),
                 Date(2025, 2, 1), Date(2025, 2, 28))

-----------------------------------------------------------------------------
(* The claim about the amounts, under SpecAmounts *)

\* C24 as stated: in every state reached by add-expense flows and admin
\* expense edits every stored expense has amount > 0
C24_AmountsPositive ==
    \A e \in DOMAIN expenses : expenses[e].amount > 0

-----------------------------------------------------------------------------
(* The claim about the money of the objects, under SpecObjects *)

\* C25 as stated: every object saved by the object-creation flow (manual
\* entry, PDF import, corrections on the confirmation step) has prepayment,
\* final_payment, the estimate fields and actual_s3_discount >= 0
C25_SavedFieldsNotNegative ==
    \A i \in DOMAIN objects :
        \A field \in NUMERIC_FIELDS : objects[i][field] >= 0

-----------------------------------------------------------------------------
(* The claims about the calculator's values and inputs, under SpecCalc *)

\* the money-valued fields of the result of calculate_profit_data
MoneyFields ==
    {"total_income", "prepayment", "final_payment", "estimate_s3",
     "actual_s3_discount", "s3_difference", "estimate_works", "fzp_master",
     "fzp_foreman", "fzp_total", "work_profit", "estimate_supplies",
     "supplies_fact", "supplies_difference", "estimate_overhead",
     "overhead_fact", "overhead_difference", "estimate_transport",
     "transport_fact", "transport_difference", "total_expenses", "total_profit"}

\* C26 as stated: the stored money fields having two fractional digits,
\* every money-valued field of the result of calculate_profit_data is a whole
\* number of kopecks
C26_WholeKopecks ==
    Calculated =>
        \A field \in MoneyFields : calc_out.data[field] % RateScale = 0

-----------------------------------------------------------------------------
(* SpecRepeated: calculate_profit_data and generate_period_report called    *)
(* again and again, in any order, on one list of loaded objects.  Both are  *)
(* plain functions without an await, so a call runs from its first line to  *)
(* its return before another handler's call starts; the objects of the list *)
(* are shared by every caller, as Python passes them by reference.          *)

\* calls of one function on one argument that are followed
MaxCalls == 2

\* calculations.py: the object after calculate_profit_data returned, were
\* the sums to consume obj.expenses
obj_after_consuming_expenses(obj) == [obj EXCEPT !.expenses = << >>]

\* calculations.py: the object after calculate_profit_data returned; the
\* function reads attributes and assigns to none
obj_after_calculate_profit_data(obj) == obj

\* report_generator.py: the list after generate_period_report returned; it
\* calls calculate_profit_data on every object and assigns to nothing else
objects_after_generate_period_report(objs) ==
    [i \in DOMAIN objs |-> obj_after_calculate_profit_data(objs[i])]

\* an object without relations, one that an imported estimate left with a
\* prepayment of -1.00, and one with an expense and an advance
RepeatedObjects ==
    {[NoObject EXCEPT !.estimate_supplies = 1000000],
     [NoObject EXCEPT !.prepayment = -100, !.estimate_overhead = 300000],
     [NoObject EXCEPT !.prepayment = 1500000,
                      !.estimate_works = 1000000,
                      !.expenses = <<[type |-> "transport", amount |-> 70000,
                                      payment_source |-> "company",
                                      compensation_status |-> None]>>,
                      !.advances = <<[worker_name |-> "Ivanov",
                                      work_type |-> "masonry",
                                      amount |-> 150000]>>]}

RepeatedInputs ==
    [kind : {"report"},
     objects : SeqsUpTo(RepeatedObjects, MaxReportObjects),
     company_expenses : SeqsUpTo(ReportCompanyTotals, 1)]

NotCalled == [calls |-> 0, data |-> << >>]

RepeatedInit ==
    /\ period_in \in RepeatedInputs
    /\ period_out = [kind |-> "period_report", calls |-> 0, report |-> << >>]
    /\ calc_out = [kind |-> "calls",
                   results |-> [i \in DOMAIN period_in.objects |-> NotCalled]]
    /\ calc_obj = NoObject
    /\ tasks = NoTasks
    /\ objects = << >>
    /\ expenses = << >>
    /\ expenses_id_seq = 0
    /\ logs = EmptyBag
    /\ fsm = [u \in Users |-> [state |-> None, data |-> NoData]]
    /\ compensate_buttons = {}
    /\ advances = << >>
    /\ users = RegisteredUsers
    /\ answer = [event |-> None, text |-> None]

\* a handler calls calculate_profit_data on the i-th object
CallCalculateAgain(i) ==
    /\ i \in DOMAIN period_in.objects
    /\ calc_out.results[i].calls < MaxCalls
    /\ calc_out' = [calc_out EXCEPT !.results[i] =
                       [calls |-> @.calls + 1,
                        data |-> <<calculate_profit_data(period_in.objects[i])>>]]
    /\ period_in' = [period_in EXCEPT !.objects[i] =
                        obj_after_calculate_profit_data(@)]
    /\ UNCHANGED <<calc_obj, period_out, DbVars>>

\* a handler calls generate_period_report on the list
CallPeriodReportAgain ==
    /\ period_out.calls < MaxCalls
    /\ period_out' = [kind |-> "period_report",
                      calls |-> period_out.calls + 1,
                      report |-> <<generate_period_report(period_in.objects,
                                                          period_in.company_expenses)>>]
    /\ period_in' = [period_in EXCEPT !.objects =
                        objects_after_generate_period_report(@)]
    /\ UNCHANGED <<calc_obj, calc_out, DbVars>>

RepeatedNext ==
    \/ \E i \in 1..MaxReportObjects : CallCalculateAgain(i)
    \/ CallPeriodReportAgain

SpecRepeated == RepeatedInit /\ [][RepeatedNext]_vars

-----------------------------------------------------------------------------
(* bot/handlers/objects.py: the expense screens of an object                *)

EXPENSES_PAGE_SIZE == 10

\* crud.py, get_expenses_by_object: the rows of the object, ORDER BY date
\* DESC; rows of one date come in either order
get_expenses_by_object(tbl, object_id) ==
    Orderings({e \in DOMAIN tbl : tbl[e].object_id = object_id},
              [e \in DOMAIN tbl |-> -tbl[e].date])

\* the ids a list holds
IdsOf(list) == {list[k] : k \in DOMAIN list}

IsPersonal(row) == row.payment_source = "personal"

\* a variant that counts every expense of the type as paid by the company
company_total_of_all(tbl, I) == SumOfIds(tbl, I)

\* lines 321-322: bucket["company_total"] += expense.amount, for every
\* expense that is not PERSONAL
company_total_of(tbl, I) == SumOfIds(tbl, {e \in I : ~IsPersonal(tbl[e])})

\* lines 305-322: the bucket of one type after the loop over its expenses I
expense_bucket(tbl, I) ==
    [total |-> SumOfIds(tbl, I),
     count |-> Cardinality(I),
     personal_pending |->
         Cardinality({e \in I : /\ IsPersonal(tbl[e])
                                /\ tbl[e].compensation_status = "pending"}),
     personal_total |-> SumOfIds(tbl, {e \in I : IsPersonal(tbl[e])}),
     company_total |-> company_total_of(tbl, I)]

\* lines 303-324: grouped, a bucket for every type that has an expense
grouped_expenses(tbl, I) ==
    [t \in {tbl[e].type : e \in I} |->
        expense_bucket(tbl, {e \in I : tbl[e].type = t})]

\* _send_expenses_overview, lines 284-380: the screen it sends, listed being
\* what get_expenses_by_object returned
_send_expenses_overview(objs, tbl, object_id, listed) ==
    IF object_id \notin DOMAIN objs
    THEN [kind |-> "object not found"]
    ELSE IF listed = << >>
         THEN [kind |-> "no expenses"]
         ELSE [kind |-> "overview",
               count |-> Len(listed),
               overall_total |-> SumOfIds(tbl, IdsOf(listed)),
               types |-> grouped_expenses(tbl, IdsOf(listed))]

\* _normalize_page, lines 168-171
_normalize_page(page, total_pages) ==
    IF total_pages <= 0 THEN 1 ELSE Max(1, Min(page, total_pages))

\* math.ceil(total / EXPENSES_PAGE_SIZE)
PagesOf(total) == (total + EXPENSES_PAGE_SIZE - 1) \div EXPENSES_PAGE_SIZE

\* _send_expenses_type_page, lines 383-470: the screen it sends; a token that
\* names no type and a type without expenses lead to the overview
_send_expenses_type_page(objs, tbl, object_id, expense_type, page, listed) ==
    LET filtered == SelectSeq(listed, LAMBDA e : tbl[e].type = expense_type)
        total == Len(filtered)
        shown == _normalize_page(page, PagesOf(total))
        start == (shown - 1) * EXPENSES_PAGE_SIZE
        total_amount == SumOfIds(tbl, IdsOf(filtered))
        personal_total ==
            SumOfIds(tbl, {e \in IdsOf(filtered) : IsPersonal(tbl[e])})
    IN  IF object_id \notin DOMAIN objs
        THEN [kind |-> "object not found"]
        ELSE IF expense_type = None \/ filtered = << >>
             THEN _send_expenses_overview(objs, tbl, object_id, listed)
             ELSE [kind |-> "type page",
                   type |-> expense_type,
                   page |-> shown,
                   total |-> total,
                   total_amount |-> total_amount,
                   personal_total |-> personal_total,
                   company_total |-> total_amount - personal_total,
                   pending_count |->
                       Cardinality({e \in IdsOf(filtered) :
                           /\ IsPersonal(tbl[e])
                           /\ tbl[e].compensation_status = "pending"}),
                   items |-> [k \in 1..Min(EXPENSES_PAGE_SIZE, total - start) |->
                                 [id |-> filtered[start + k],
                                  status |-> _get_expense_status(tbl[filtered[start + k]])]]]

\* view_expenses_list, lines 1411-1419: the callback object:view_expenses
view_expenses_list(u, object_id) ==
    /\ \E listed \in get_expenses_by_object(expenses, object_id) :
           answer' = Reply("object:view_expenses",
                           _send_expenses_overview(objects, expenses, object_id, listed))
    /\ UNCHANGED <<ServiceVars, users, advances, expenses_id_seq, tasks, objects, expenses, logs, fsm, compensate_buttons>>

\* view_expenses_by_type, lines 1422-1430: the callback expense:type
view_expenses_by_type(u, object_id, page, expense_type) ==
    /\ \E listed \in get_expenses_by_object(expenses, object_id) :
           answer' = Reply("expense:type",
                           _send_expenses_type_page(objects, expenses, object_id,
                                                    expense_type, page, listed))
    /\ UNCHANGED <<ServiceVars, users, advances, expenses_id_seq, tasks, objects, expenses, logs, fsm, compensate_buttons>>

-----------------------------------------------------------------------------
(* SpecExpenseScreens: the expense screens over the tables the add-expense  *)
(* flow, the compensation and the edits of the payment source leave behind  *)

\* expenses of one object that are followed
MaxShownExpenses == 2

ShownAmounts == {10000, 20000}

\* the types of the expenses in the tables
ShownTypes == {"supplies", "transport"}

\* an expense is paid by the company, or paid by the foreman and then either
\* pending or compensated; one more row is an expense that was switched to the
\* company's card and then marked from a card sent before the switch
ShownExpenseRows ==
    {[object_id |-> 1, type |-> t, amount |-> a, description |-> "cement",
      date |-> 20, photo_url |-> None, added_by |-> "admin",
      payment_source |-> st[1], compensation_status |-> st[2]] :
        t \in ShownTypes, a \in ShownAmounts,
        st \in {<<"company", None>>, <<"personal", "pending">>,
                <<"personal", "compensated">>}}
    \cup
    {[object_id |-> 1, type |-> "transport", amount |-> 10000,
      description |-> "cement", date |-> 20, photo_url |-> None,
      added_by |-> "admin", payment_source |-> "company",
      compensation_status |-> "compensated"]}

ShownExpenseTables == SeqsUpTo(ShownExpenseRows, MaxShownExpenses)

ExpenseScreensInit ==
    /\ calc_obj = NoObject
    /\ calc_out = NoOutput
    /\ tasks = NoTasks
    /\ period_in = NoPeriod
    /\ period_out = NoOutput
    /\ objects = SavedObjects(ParsedSheets)
    /\ expenses \in ShownExpenseTables
    /\ expenses_id_seq = Len(expenses)
    /\ logs = EmptyBag
    /\ fsm = [u \in Users |-> [state |-> None, data |-> NoData]]
    /\ compensate_buttons = {}
    /\ advances = << >>
    /\ users = RegisteredUsers
    /\ answer = [event |-> None, text |-> None]

\* the pages asked for
ShownPages == 1..2

ExpenseScreensNext ==
    \/ \E u \in Talking, o \in ObjectIds : view_expenses_list(u, o)
    \/ \E u \in Talking, o \in ObjectIds, page \in ShownPages,
          t \in ShownTypes \cup {None} : view_expenses_by_type(u, o, page, t)
    \/ \E u \in Talking, e \in 1..MaxShownExpenses : view_expense_detail(u, e)

SpecExpenseScreens == ExpenseScreensInit /\ [][ExpenseScreensNext]_vars

-----------------------------------------------------------------------------
(* The claims about the expense screens, under SpecExpenseScreens.  No      *)
(* action of it writes the table, so a screen is about the table of the     *)
(* state it is seen in.                                                     *)

OverviewShown ==
    /\ answer.event \in {"object:view_expenses", "expense:type"}
    /\ answer.text.kind = "overview"

TypePageShown ==
    /\ answer.event = "expense:type"
    /\ answer.text.kind = "type page"

OfType(tbl, t) == {e \in DOMAIN tbl : tbl[e].object_id = 1 /\ tbl[e].type = t}

PendingOfType(tbl, t) ==
    {e \in OfType(tbl, t) : IsPersonal(tbl[e]) /\ tbl[e].compensation_status = "pending"}

CompensatedOfType(tbl, t) ==
    {e \in OfType(tbl, t) : IsPersonal(tbl[e]) /\ tbl[e].compensation_status = "compensated"}

CompanyOfType(tbl, t) == {e \in OfType(tbl, t) : ~IsPersonal(tbl[e])}

\* the overview of a table, whatever the order of the listing
OverviewOf(tbl) ==
    _send_expenses_overview(objects, tbl, 1,
        CHOOSE listed \in get_expenses_by_object(tbl, 1) : TRUE)

\* C28 as stated: what the overview yields for a type gives the amount
\* pending compensation and the amount compensated, that is, two tables with
\* the same overview have the same two amounts for every type
C28_PendingAndCompensatedAmountsYielded ==
    OverviewShown =>
        \A other \in ShownExpenseTables :
            OverviewOf(other) = answer.text =>
                \A t \in ExpenseType :
                    /\ SumOfIds(other, PendingOfType(other, t))
                           = SumOfIds(expenses, PendingOfType(expenses, t))
                    /\ SumOfIds(other, CompensatedOfType(other, t))
                           = SumOfIds(expenses, CompensatedOfType(expenses, t))

\* C28, amended: for every type with an expense the overview yields the
\* total, the count, the amount paid by the foreman (pending and compensated
\* together), the count of the foreman's expenses pending compensation and
\* the amount paid by the company, with total = foreman's amount + company's
\* amount; a type without expenses has no bucket; the type page yields the
\* same five figures
C28_TypeFigures ==
    /\ OverviewShown =>
           /\ DOMAIN answer.text.types = {t \in ExpenseType : OfType(expenses, t) # {}}
           /\ \A t \in DOMAIN answer.text.types :
                  LET bucket == answer.text.types[t]
                  IN  /\ bucket.total = SumOfIds(expenses, OfType(expenses, t))
                      /\ bucket.count = Cardinality(OfType(expenses, t))
                      /\ bucket.personal_total =
                             SumOfIds(expenses, PendingOfType(expenses, t))
                             + SumOfIds(expenses, CompensatedOfType(expenses, t))
                      /\ bucket.personal_pending = Cardinality(PendingOfType(expenses, t))
                      /\ bucket.company_total = SumOfIds(expenses, CompanyOfType(expenses, t))
                      /\ bucket.total = bucket.personal_total + bucket.company_total
    /\ TypePageShown =>
           LET t == answer.text.type
           IN  /\ answer.text.total_amount = SumOfIds(expenses, OfType(expenses, t))
               /\ answer.text.total = Cardinality(OfType(expenses, t))
               /\ answer.text.personal_total =
                      SumOfIds(expenses, PendingOfType(expenses, t))
                      + SumOfIds(expenses, CompensatedOfType(expenses, t))
               /\ answer.text.pending_count = Cardinality(PendingOfType(expenses, t))
               /\ answer.text.company_total = SumOfIds(expenses, CompanyOfType(expenses, t))
               /\ answer.text.total_amount =
                      answer.text.personal_total + answer.text.company_total

\* the overview of a table with a pending and a compensated expense of the
\* foreman, both of one type
C28_Witness ==
    /\ OverviewShown
    /\ \E t \in ExpenseType :
           /\ PendingOfType(expenses, t) # {}
           /\ CompensatedOfType(expenses, t) # {}
           /\ answer.text.types[t].count = 2
           /\ answer.text.types[t].personal_pending = 1

\* the type page of a type with an expense of the company and one of the
\* foreman
C28_WitnessTypePage ==
    /\ TypePageShown
    /\ CompanyOfType(expenses, answer.text.type) # {}
    /\ PendingOfType(expenses, answer.text.type) # {}

\* which of the three states an expense is in
ThreeWayState(expense) ==
    CASE ~IsPersonal(expense) -> "company"
      [] IsPersonal(expense) /\ expense.compensation_status = "pending" -> "pending"
      [] IsPersonal(expense) /\ expense.compensation_status = "compensated" -> "compensated"

\* C29: the status a type page shows for an expense is "paid with the company
\* card" when the company paid, "to be reimbursed to the foreman" when the
\* foreman paid and compensation is pending, "compensation done" when the
\* foreman paid and was compensated; expenses shown with one status are in one
\* of the three states
C29_StatusOfThreeStates ==
    TypePageShown =>
        /\ \A k \in DOMAIN answer.text.items :
               LET expense == expenses[answer.text.items[k].id]
                   status == answer.text.items[k].status
               IN  /\ ~IsPersonal(expense) => status = "paid with the company card"
                   /\ IsPersonal(expense) /\ expense.compensation_status = "pending"
                          => status = "to be reimbursed to the foreman"
                   /\ IsPersonal(expense) /\ expense.compensation_status = "compensated"
                          => status = "compensation done"
        /\ \A k, m \in DOMAIN answer.text.items :
               answer.text.items[k].status = answer.text.items[m].status =>
                   ThreeWayState(expenses[answer.text.items[k].id])
                       = ThreeWayState(expenses[answer.text.items[m].id])

\* a type page that lists a compensated and a pending expense of the foreman
C29_Witness ==
    /\ TypePageShown
    /\ Len(answer.text.items) = 2
    /\ \E k, m \in DOMAIN answer.text.items :
           /\ answer.text.items[k].status = "compensation done"
           /\ answer.text.items[m].status = "to be reimbursed to the foreman"

\* a type page that lists an expense paid by the company
C29_WitnessCompany ==
    /\ TypePageShown
    /\ \E k \in DOMAIN answer.text.items :
           answer.text.items[k].status = "paid with the company card"

-----------------------------------------------------------------------------
(* Texts of work types.  A str is a sequence of characters, so that strip   *)
(* and lower are computed; a JSON null and a missing key are held as the    *)
(* empty text, which every `x or default` of the code treats alike.         *)

Whitespace == {" "}

\* ord(c) of the characters that occur
CodePoint ==
    (" " :> 32) @@ ("B" :> 66) @@ ("N" :> 78) @@ ("T" :> 84) @@ ("a" :> 97)
    @@ ("b" :> 98) @@ ("e" :> 101) @@ ("i" :> 105) @@ ("k" :> 107)
    @@ ("l" :> 108) @@ ("n" :> 110) @@ ("t" :> 116) @@ ("u" :> 117)
    @@ ("y" :> 121) @@ ("z" :> 122)

\* c.lower()
LowerChar(c) ==
    CASE c = "B" -> "b" [] c = "N" -> "n" [] c = "T" -> "t" [] OTHER -> c

\* text.lower()
lower(text) == [k \in DOMAIN text |-> LowerChar(text[k])]

RECURSIVE lstrip(_)
lstrip(text) ==
    IF text # << >> /\ Head(text) \in Whitespace THEN lstrip(Tail(text)) ELSE text

RECURSIVE rstrip(_)
rstrip(text) ==
    IF text # << >> /\ text[Len(text)] \in Whitespace
    THEN rstrip(SubSeq(text, 1, Len(text) - 1))
    ELSE text

\* text.strip()
strip(text) == rstrip(lstrip(text))

\* a or b on texts
OrText(a, b) == IF a = << >> THEN b ELSE a

RECURSIVE TextLess(_, _)
\* a < b on str: by code point, a proper prefix first
TextLess(a, b) ==
    IF b = << >> THEN FALSE
    ELSE IF a = << >> THEN TRUE
    ELSE IF Head(a) # Head(b) THEN CodePoint[Head(a)] < CodePoint[Head(b)]
    ELSE TextLess(Tail(a), Tail(b))

\* "Без указания вида работ"
UNSPECIFIED_WORK_TYPE_LABEL == <<"B", "e", "z", " ", "u", "k", "a", "z", "a", "n", "i", "y", "a">>

DEFAULT_WORK_TYPE_TOKEN == <<"d", "e", "f", "a", "u", "l", "t">>

\* expenses.py, lines 551-552: "Не указан"
NOT_SPECIFIED == <<"N", "e", " ", "u", "k", "a", "z", "a", "n">>

-----------------------------------------------------------------------------
(* bot/handlers/expenses.py: adding an advance *)

\* database/crud.py, create_advance
create_advance(tbl, object_id, worker_name, work_type, amount, date, added_by) ==
    Insert(tbl, [object_id |-> object_id,
                 worker_name |-> worker_name,
                 work_type |-> work_type,
                 amount |-> amount,
                 date |-> date,
                 added_by |-> added_by])

\* advances of the table that are followed
MaxAdvances == 2

\* parse_advance_text, lines 134-150: what it returns for the replies of the
\* language model: a work type, one with other case and blanks around it, a
\* blank, and none
ParsedAdvances ==
    [worker_name : {<<"T", "i", "t">>},
     work_type : {<<"T", "i", "l", "e">>, <<" ", "t", "i", "l", "e", " ">>,
                  <<" ">>, << >>},
     amount : {1500000},
     date : {20, 21}]

start_add_advance(u, object_id) ==
    /\ IF object_id \notin DOMAIN objects
       THEN /\ answer' = Reply("advance:add", "object not found")
            /\ UNCHANGED fsm
       ELSE /\ SetCtx(u, set_state(
                   update_data(Ctx(u), [object_id |-> object_id,
                                        object_name |-> objects[object_id].name]),
                   "AddAdvanceStates:waiting_input"))
            /\ answer' = Reply("advance:add", "describe the advance")
    /\ UNCHANGED <<ServiceVars, users, advances, expenses_id_seq, tasks, objects, expenses, logs, compensate_buttons>>

process_advance_text(u, parsed) ==
    /\ Ctx(u).state = "AddAdvanceStates:waiting_input"
    /\ SetCtx(u, set_state(
           update_data(Ctx(u), [parsed_worker_name |-> parsed.worker_name,
                                parsed_work_type |-> parsed.work_type,
                                parsed_amount |-> parsed.amount,
                                parsed_date |-> parsed.date]),
           "AddAdvanceStates:confirm_advance"))
    /\ answer' = Reply("text", "check the data")
    /\ UNCHANGED <<ServiceVars, users, advances, expenses_id_seq, tasks, objects, expenses, logs, compensate_buttons>>

retry_advance_input(u) ==
    /\ Ctx(u).state = "AddAdvanceStates:confirm_advance"
    /\ SetCtx(u, set_state(Ctx(u), "AddAdvanceStates:waiting_input"))
    /\ answer' = Reply("advance:retry", "describe the advance once more")
    /\ UNCHANGED <<ServiceVars, users, advances, expenses_id_seq, tasks, objects, expenses, logs, compensate_buttons>>

\* line 552: work_type=data['parsed_work_type'] or "Не указан"
work_type_to_store(data) == OrText(data.parsed_work_type, NOT_SPECIFIED)

confirm_advance(u) ==
    /\ Ctx(u).state = "AddAdvanceStates:confirm_advance"
    /\ Cardinality(DOMAIN advances) < MaxAdvances
    /\ advances' = create_advance(advances,
                                  Ctx(u).data.object_id,
                                  OrText(Ctx(u).data.parsed_worker_name, NOT_SPECIFIED),
                                  work_type_to_store(Ctx(u).data),
                                  Ctx(u).data.parsed_amount,
                                  Ctx(u).data.parsed_date,
                                  u)
    /\ SetCtx(u, clear)
    /\ answer' = Reply("advance:confirm", "advance added")
    /\ UNCHANGED <<ServiceVars, users, expenses_id_seq, tasks, objects, expenses, logs, compensate_buttons>>

-----------------------------------------------------------------------------
(* bot/handlers/objects.py: the advances of an object by work type *)

\* the column is NOT NULL, so `value or ""` is the value
_display_work_type(value) == OrText(strip(value), UNSPECIFIED_WORK_TYPE_LABEL)

_normalize_work_type(value) == lower(_display_work_type(value))

\* hashlib.sha1(normalized).hexdigest()[:16]; the texts of the model are
\* taken to have different digests, and a digest is held as the text it is of
_make_work_type_token(value) ==
    IF _normalize_work_type(value) = << >>
    THEN DEFAULT_WORK_TYPE_TOKEN
    ELSE _normalize_work_type(value)

\* crud.py, get_advances_by_object: ORDER BY date DESC, rows of one date in
\* either order
get_advances_by_object(tbl, object_id) ==
    Orderings({a \in DOMAIN tbl : tbl[a].object_id = object_id},
              [a \in DOMAIN tbl |-> -tbl[a].date])

\* lines 505-523: grouped after one more advance
bucket_with(grouped, advance, id) ==
    LET token == _make_work_type_token(advance.work_type)
        bucket == IF token \in DOMAIN grouped
                  THEN grouped[token]
                  ELSE [label |-> _display_work_type(advance.work_type),
                        total |-> 0,
                        count |-> 0,
                        min_date |-> 0,
                        max_date |-> 0,
                        token |-> token,
                        normalized |-> _normalize_work_type(advance.work_type),
                        ids |-> {}]
    IN  [x \in DOMAIN grouped \cup {token} |->
            IF x # token THEN grouped[x]
            ELSE [bucket EXCEPT
                     !.total = @ + advance.amount,
                     !.count = @ + 1,
                     !.min_date = IF @ = 0 \/ advance.date < @ THEN advance.date ELSE @,
                     !.max_date = IF @ = 0 \/ advance.date > @ THEN advance.date ELSE @,
                     !.ids = @ \cup {id}]]

RECURSIVE grouped_advances(_, _)
\* lines 500-523: the loop over the advances listed; ids is the advances a
\* bucket was added to, kept for the claims and not shown
grouped_advances(tbl, listed) ==
    IF listed = << >> THEN << >>
    ELSE bucket_with(grouped_advances(tbl, SubSeq(listed, 1, Len(listed) - 1)),
                     tbl[listed[Len(listed)]], listed[Len(listed)])

\* the key of sorted(): (item["label"].lower(), item["label"])
GroupBefore(a, b) ==
    \/ TextLess(lower(a.label), lower(b.label))
    \/ lower(a.label) = lower(b.label) /\ TextLess(a.label, b.label)

\* lines 525-528: sorted(grouped.values(), key=...)
sorted_groups(grouped) ==
    LET order == CHOOSE s \in [1..Cardinality(DOMAIN grouped) -> DOMAIN grouped] :
                     /\ \A i, j \in DOMAIN s : i # j => s[i] # s[j]
                     /\ \A i, j \in DOMAIN s :
                            i < j => ~GroupBefore(grouped[s[j]], grouped[s[i]])
    IN  [k \in DOMAIN order |-> grouped[order[k]]]

\* _send_advances_overview, lines 479-570: the screen it sends
_send_advances_overview(objs, tbl, object_id, listed) ==
    IF object_id \notin DOMAIN objs
    THEN [kind |-> "object not found"]
    ELSE IF listed = << >>
         THEN [kind |-> "no advances"]
         ELSE [kind |-> "overview",
               overall_total |-> SumOfIds(tbl, IdsOf(listed)),
               count |-> Len(listed),
               groups |-> sorted_groups(grouped_advances(tbl, listed))]

\* view_advances_list, lines 1400-1408: the callback object:view_advances
view_advances_list(u, object_id) ==
    /\ \E listed \in get_advances_by_object(advances, object_id) :
           answer' = Reply("object:view_advances",
                           _send_advances_overview(objects, advances, object_id, listed))
    /\ UNCHANGED <<ServiceVars, users, advances, expenses_id_seq, tasks, objects, expenses, logs, fsm, compensate_buttons>>

-----------------------------------------------------------------------------
(* SpecAdvances: advances are added to the saved object and its advances    *)
(* are looked at                                                            *)

AdvancesNext ==
    \/ \E u \in Talking, o \in ObjectIds : start_add_advance(u, o)
    \/ \E u \in Talking, parsed \in ParsedAdvances : process_advance_text(u, parsed)
    \/ \E u \in Talking : retry_advance_input(u)
    \/ \E u \in Talking : confirm_advance(u)
    \/ \E u \in Talking, o \in ObjectIds : view_advances_list(u, o)

SpecAdvances == Init /\ [][AdvancesNext]_vars

-----------------------------------------------------------------------------
(* The claim about the advances by work type, under SpecAdvances *)

\* the overview on the screen is of the table as it is now
AdvancesShown ==
    /\ answer.event = "object:view_advances"
    /\ answer.text.kind = "overview"

\* the advances that were added without a work type, with an empty one or
\* with a blank one: confirm_advance stores "Не указан" for the first two
Unspecified(tbl) ==
    {a \in DOMAIN tbl : strip(tbl[a].work_type) \in {<< >>, NOT_SPECIFIED}}

\* the buckets the advances of a set were added to
BucketsOf(groups, I) ==
    {k \in DOMAIN groups : groups[k].ids \cap I # {}}

RECURSIVE SumOfTotals(_)
SumOfTotals(groups) ==
    IF groups = << >> THEN 0 ELSE Head(groups).total + SumOfTotals(Tail(groups))

\* C30 as stated: on the overview of the advances the advances added
\* without a work type, with an empty one or with a blank one are in one
\* bucket; advances whose work types differ in case or in the blanks around
\* them alone are in one bucket; every advance is in one bucket and one only;
\* the totals of the buckets add up to the total of the advances
C30_BucketsByWorkType ==
    AdvancesShown =>
        LET groups == answer.text.groups
        IN  /\ Cardinality(BucketsOf(groups, Unspecified(advances))) <= 1
            /\ \A a, b \in DOMAIN advances :
                   lower(strip(advances[a].work_type)) = lower(strip(advances[b].work_type))
                       => BucketsOf(groups, {a}) = BucketsOf(groups, {b})
            /\ \A a \in DOMAIN advances : Cardinality(BucketsOf(groups, {a})) = 1
            /\ SumOfTotals(groups) = answer.text.overall_total
            /\ answer.text.overall_total = SumOfIds(advances, DOMAIN advances)

-----------------------------------------------------------------------------
(* Further claims about the calculator, under SpecCalc *)

\* the five estimates of the object handed to the calculator, added up
SumOfEstimates ==
    Dec(calc_obj.estimate_s3) + Dec(calc_obj.estimate_works)
        + Dec(calc_obj.estimate_supplies) + Dec(calc_obj.estimate_overhead)
        + Dec(calc_obj.estimate_transport)

\* C31: total_profit + total_expenses is the sum of the five estimates,
\* whatever the expenses and the income are; so total_profit is total_income
\* less total_expenses exactly when the income is the sum of the estimates
C31_ProfitPlusExpensesIsEstimates ==
    Calculated =>
        /\ calc_out.data.total_profit + calc_out.data.total_expenses = SumOfEstimates
        /\ (calc_out.data.total_profit
                = calc_out.data.total_income - calc_out.data.total_expenses)
           <=> (calc_out.data.total_income = SumOfEstimates)

\* an object with expenses whose income is not the sum of its estimates
C31_Witness ==
    /\ Calculated
    /\ Len(calc_obj.expenses) = 2
    /\ calc_out.data.total_income > 0
    /\ calc_out.data.total_income # SumOfEstimates
    /\ calc_out.data.total_profit
           # calc_out.data.total_income - calc_out.data.total_expenses

\* C32: supplies_fact + transport_fact + overhead_fact is the sum of the
\* amounts of all the expenses of the object, and an expense adds to the fact
\* of its type alone
C32_EveryExpenseInOneFact ==
    Calculated =>
        /\ calc_out.data.supplies_fact + calc_out.data.transport_fact
               + calc_out.data.overhead_fact = Dec(SumAmount(calc_obj.expenses))
        /\ \A t \in ExpenseType :
               calc_out.data[t \o "_fact"]
                   = Dec(SumAt(calc_obj.expenses,
                               {k \in DOMAIN calc_obj.expenses :
                                    calc_obj.expenses[k].type = t}))

\* two expenses of different types, one of them an overhead
C32_Witness ==
    /\ Calculated
    /\ Len(calc_obj.expenses) = 2
    /\ calc_obj.expenses[1].type = "overhead"
    /\ calc_obj.expenses[2].type = "transport"
    /\ calc_out.data.overhead_fact = Dec(calc_obj.expenses[1].amount)

\* who paid an expense and whether it was compensated
PaymentStates ==
    {<<"company", None>>, <<"personal", "pending">>, <<"personal", "compensated">>}

\* the objects that differ from obj in the payment_source and the
\* compensation_status of their expenses at most
Repaid(obj) ==
    {[obj EXCEPT !.expenses =
         [k \in DOMAIN obj.expenses |->
             [obj.expenses[k] EXCEPT !.payment_source = st[k][1],
                                     !.compensation_status = st[k][2]]]] :
        st \in [DOMAIN obj.expenses -> PaymentStates]}

\* C33: an object that differs in the payment_source and compensation_status
\* of its expenses alone gets the same result from calculate_profit_data
C33_FiguresIgnoreWhoPaid ==
    Calculated =>
        \A other \in Repaid(calc_obj) : calculate_profit_data(other) = calc_out.data

\* an object with a supplies expense, which has variants the foreman paid
C33_Witness ==
    /\ Calculated
    /\ Len(calc_obj.expenses) = 2
    /\ calc_obj.expenses[1].type = "supplies"
    /\ \E other \in Repaid(calc_obj) :
           /\ other.expenses[1].payment_source = "personal"
           /\ other.expenses[2].compensation_status = "compensated"
    /\ calc_out.data.supplies_fact >= Dec(calc_obj.expenses[1].amount)

-----------------------------------------------------------------------------
(* database/crud.py: deleting an expense, and an object with its relations  *)

\* DELETE FROM expenses WHERE id = expense_id: the table after the statement
delete_expense(tbl, expense_id) ==
    [i \in DOMAIN tbl \ {expense_id} |-> tbl[i]]

\* the rows I of a table as a list, in the order of their keys
RowsOf(tbl, I) ==
    LET order == CHOOSE s \in Orderings(I, [i \in I |-> i]) : TRUE
    IN  [k \in DOMAIN order |-> tbl[order[k]]]

\* a variant whose selectinload is not narrowed to the object
get_object_by_id_with_every_expense(objs, exps, advs, object_id) ==
    [f \in DOMAIN objs[object_id] \cup {"expenses", "advances"} |->
        IF f = "expenses" THEN RowsOf(exps, DOMAIN exps)
        ELSE IF f = "advances"
        THEN RowsOf(advs, {a \in DOMAIN advs : advs[a].object_id = object_id})
        ELSE objs[object_id][f]]

\* get_object_by_id with load_relations: the row with the expenses and the
\* advances whose object_id is the object's
get_object_by_id(objs, exps, advs, object_id) ==
    [f \in DOMAIN objs[object_id] \cup {"expenses", "advances"} |->
        IF f = "expenses"
        THEN RowsOf(exps, {e \in DOMAIN exps : exps[e].object_id = object_id})
        ELSE IF f = "advances"
        THEN RowsOf(advs, {a \in DOMAIN advs : advs[a].object_id = object_id})
        ELSE objs[object_id][f]]

-----------------------------------------------------------------------------
(* SpecFigures: expenses are created and deleted in a database of two       *)
(* objects, and the figures of the objects are calculated                   *)

\* keys of expenses handed out
MaxFigureExpenses == 2

FigureAmounts == {500, 6000}

\* the two objects saved from the estimates "House" and "Shed"
FigureObjects == SavedObjects(ParsedEstimates)

FiguresInit ==
    /\ calc_obj = NoObject
    /\ calc_out = NoOutput
    /\ tasks = NoTasks
    /\ period_in = NoPeriod
    /\ period_out = NoOutput
    /\ objects = FigureObjects
    /\ expenses = << >>
    /\ expenses_id_seq = 0
    /\ logs = EmptyBag
    /\ fsm = [u \in Users |-> [state |-> None, data |-> NoData]]
    /\ compensate_buttons = {}
    /\ advances = << >>
    /\ users = RegisteredUsers
    /\ answer = [event |-> None, text |-> None]

\* crud.create_expense called for an object; the object a handler loaded
\* before and what the calculator made of it are gone with that handler
CreateExpense(object_id, expense_type, amount) ==
    /\ expenses_id_seq < MaxFigureExpenses
    /\ expenses' = create_expense(expenses, expenses_id_seq, object_id, expense_type,
                                  amount, "cement", 20, "admin", None, "company", None)
    /\ expenses_id_seq' = expenses_id_seq + 1
    /\ calc_obj' = NoObject
    /\ calc_out' = NoOutput
    /\ UNCHANGED <<period_in, period_out, users, advances, tasks, objects, logs, fsm, compensate_buttons, answer>>

\* crud.delete_expense called for a key
DeleteExpense(expense_id) ==
    /\ expenses' = delete_expense(expenses, expense_id)
    /\ calc_obj' = NoObject
    /\ calc_out' = NoOutput
    /\ UNCHANGED <<period_in, period_out, users, advances, expenses_id_seq, tasks, objects, logs, fsm, compensate_buttons, answer>>

\* calculate_profit_data called on an object as get_object_by_id loads it
CalculateLoaded(object_id) ==
    /\ calc_obj' = get_object_by_id(objects, expenses, advances, object_id)
    /\ calc_out' = [kind |-> "data", data |-> calculate_profit_data(calc_obj')]
    /\ UNCHANGED <<period_in, period_out, DbVars>>

FiguresNext ==
    \/ \E o \in DOMAIN objects, t \in ExpenseType, a \in FigureAmounts :
           CreateExpense(o, t, a)
    \/ \E e \in 1..MaxFigureExpenses : DeleteExpense(e)
    \/ \E o \in DOMAIN objects : CalculateLoaded(o)

SpecFigures == FiguresInit /\ [][FiguresNext]_vars

-----------------------------------------------------------------------------
(* The claim about the figures and the expenses, under SpecFigures *)

\* the figures of an object over a table of expenses
FiguresOf(tbl, o) ==
    calculate_profit_data(get_object_by_id(objects, tbl, advances, o))

Facts == {"supplies_fact", "transport_fact", "overhead_fact"}

\* the figures after are the figures before with an expense r more
WithOneMore(before, after, r) ==
    LET a == Dec(r.amount)
        fact == r.type \o "_fact"
    IN  /\ after.total_profit = before.total_profit - a
        /\ after[fact] = before[fact] + a
        /\ after.total_expenses = before.total_expenses + a
        /\ after.total_income = before.total_income
        /\ \A other \in Facts \ {fact} : after[other] = before[other]

\* C34: an expense of amount a and type T created for an object lowers the
\* object's total_profit by a, raises its T_fact and total_expenses by a and
\* leaves its total_income and the two other facts as they were; the figures
\* of every other object stay as they were; a deleted expense undoes this, and
\* creating an expense and deleting it gives the figures there were before
C34_ExpenseMovesOneObjectsFigures ==
    [][   /\ \A e \in DOMAIN expenses' \ DOMAIN expenses :
                 /\ WithOneMore(FiguresOf(expenses, expenses'[e].object_id),
                                FiguresOf(expenses', expenses'[e].object_id),
                                expenses'[e])
                 /\ \A o \in DOMAIN objects \ {expenses'[e].object_id} :
                        FiguresOf(expenses', o) = FiguresOf(expenses, o)
                 /\ \A o \in DOMAIN objects :
                        FiguresOf(delete_expense(expenses', e), o) = FiguresOf(expenses, o)
          /\ \A e \in DOMAIN expenses \ DOMAIN expenses' :
                 /\ WithOneMore(FiguresOf(expenses', expenses[e].object_id),
                                FiguresOf(expenses, expenses[e].object_id),
                                expenses[e])
                 /\ \A o \in DOMAIN objects \ {expenses[e].object_id} :
                        FiguresOf(expenses', o) = FiguresOf(expenses, o)]_vars

\* the first expense was created and deleted, a second one was created for
\* the second object, and the figures of that object were calculated
C34_Witness ==
    /\ expenses_id_seq = 2
    /\ DOMAIN expenses = {2}
    /\ expenses[2].object_id = 2
    /\ expenses[2].type = "transport"
    /\ calc_out.kind = "data"
    /\ calc_out.data.transport_fact = Dec(expenses[2].amount)
    /\ calc_out.data.supplies_fact = 0

-----------------------------------------------------------------------------
(* The claim about the payment-source edit, under Spec *)

\* the columns of an expense other than the two the edit is about
OtherExpenseFields == {"object_id", "type", "amount", "description", "date",
                       "added_by", "photo_url"}

\* C36 as stated: the admin's edit of the payment source of an expense gives
\* (COMPANY, NULL) when company is chosen, (PERSONAL, PENDING) when personal
\* is chosen for a COMPANY expense, and PERSONAL with the status the expense
\* has when personal is chosen for a PERSONAL expense; no other column of
\* the expense changes
C36_PaymentSourceEdit ==
    [][\A u \in Talking, new_value \in PaymentSource :
          (/\ apply_expense_payment_source(u, new_value)
           /\ role(u) = "admin"
           /\ get(Ctx(u).data, "expense_id", None) \in DOMAIN expenses) =>
              LET e == get(Ctx(u).data, "expense_id", None)
                  before == expenses[e]
                  after == expenses'[e]
              IN  /\ new_value = "company" =>
                         /\ after.payment_source = "company"
                         /\ after.compensation_status = None
                  /\ (new_value = "personal" /\ before.payment_source = "company") =>
                         /\ after.payment_source = "personal"
                         /\ after.compensation_status = "pending"
                  /\ (new_value = "personal" /\ before.payment_source = "personal") =>
                         /\ after.payment_source = "personal"
                         /\ after.compensation_status = before.compensation_status
                  /\ \A f \in OtherExpenseFields : after[f] = before[f]]_vars

-----------------------------------------------------------------------------
(* SpecAddExpense: the add-expense conversations of the users, the events   *)
(* of a conversation handled one after the other                            *)

\* expenses.py, lines 206-219: the button expense:retry
retry_expense_input(u) ==
    /\ Ctx(u).state = "AddExpenseStates:confirm_expense"
    /\ SetCtx(u, set_state(Ctx(u), "AddExpenseStates:waiting_input"))
    /\ answer' = Reply("expense:retry", "describe the expense once more")
    /\ UNCHANGED <<ServiceVars, users, advances, expenses_id_seq, tasks, objects, expenses, logs, compensate_buttons>>

\* start.py, lines 208-216: the button cancel, in any state
callback_cancel(u) ==
    /\ SetCtx(u, clear)
    /\ answer' = Reply("cancel", "action cancelled")
    /\ UNCHANGED <<ServiceVars, users, advances, expenses_id_seq, tasks, objects, expenses, logs, compensate_buttons>>

AddExpenseNext ==
    \/ \E u \in Users, t \in AddExpenseButtons, o \in ObjectIds :
           start_add_expense(u, t, o)
    \/ \E u \in Users, parsed \in ParsedExpenses : process_expense_text(u, parsed)
    \/ \E u \in Users : retry_expense_input(u)
    \/ \E u \in Users : confirm_expense(u)
    \/ \E u \in Users, ps \in PaymentSource : select_payment_source(u, ps)
    \/ \E u \in Users, saved \in BOOLEAN : process_expense_photo(u, saved)
    \/ \E u \in Users : skip_expense_photo(u)
    \/ \E u \in Users : callback_cancel(u)

SpecAddExpense == Init /\ [][AddExpenseNext]_vars

\* the state a conversation is in before the given state of the flow
StateBefore(st) ==
    CASE st = "AddExpenseStates:confirm_expense" -> "AddExpenseStates:waiting_input"
      [] st = "AddExpenseStates:select_payment_source" -> "AddExpenseStates:confirm_expense"
      [] st = "AddExpenseStates:waiting_photo" -> "AddExpenseStates:select_payment_source"

\* the photo or the skip button of user u is handled
PhotoOrSkip(u) ==
    \/ \E saved \in BOOLEAN : process_expense_photo(u, saved)
    \/ skip_expense_photo(u)

-----------------------------------------------------------------------------
(* SpecRights: the card, the compensation and the payment-source edit of a  *)
(* stored expense, asked for by the admin and by the foreman.  The foreman  *)
(* is either in no conversation or is a user who began to edit the payment  *)
(* source as an admin and was made a foreman by /add_user (admin.py, line   *)
(* 98) before pressing the button                                           *)

EditingPaymentSource ==
    [state |-> "EditExpenseStates:choose_payment_source",
     data |-> [expense_id |-> 1, object_id |-> 1, page |-> 1,
               expense_token |-> DEFAULT_EXPENSE_TYPE_TOKEN,
               field |-> "payment_source"]]

RightsInit ==
    /\ calc_obj = NoObject
    /\ calc_out = NoOutput
    /\ period_in = NoPeriod
    /\ period_out = NoOutput
    /\ objects = SavedObjects(ParsedSheets)
    /\ expenses \in AddedPersonalExpense
    /\ expenses_id_seq = 1
    /\ advances = << >>
    /\ users = RegisteredUsers
    /\ logs = EmptyBag
    /\ fsm \in {[u \in Users |-> IF u = "admin" THEN clear ELSE ctx] :
                    ctx \in {clear, EditingPaymentSource}}
    /\ compensate_buttons = {}
    /\ tasks = NoTasks
    /\ answer = [event |-> None, text |-> None]

RightsNext ==
    \/ \E u \in Users, e \in ExpenseIds : view_expense_detail(u, e)
    \/ \E u \in Users, e \in ExpenseIds : compensate_expense(u, e)
    \/ \E u \in Users, e \in ExpenseIds : start_expense_edit(u, e)
    \/ \E u \in Users, field \in EditFields : choose_expense_field(u, field)
    \/ \E u \in Users, ps \in PaymentSource : apply_expense_payment_source(u, ps)

SpecRights == RightsInit /\ [][RightsNext]_vars

\* C38: a compensate request or a payment-source edit of a user whose role
\* is not ADMIN changes no expense (payment_source and compensation_status
\* included) and writes no log entry
C38_OnlyAdminChangesCompensation ==
    [][\A u \in Users :
          (/\ role(u) # "admin"
           /\ \/ \E e \in ExpenseIds : compensate_expense(u, e)
              \/ \E ps \in PaymentSource : apply_expense_payment_source(u, ps))
          => /\ expenses' = expenses
             /\ logs' = logs]_vars

\* the foreman, still in the state of the edit, chose a payment source for
\* a pending expense and was refused
C38_Witness ==
    /\ answer = Reply("expense:edit_payment_source", "insufficient rights")
    /\ Ctx("foreman") = EditingPaymentSource
    /\ expenses[1].payment_source = "personal"
    /\ expenses[1].compensation_status = "pending"
    /\ logs = EmptyBag

\* the foreman pressed the compensate button of a card and was refused
C38_WitnessCompensate ==
    /\ answer = Reply("expense:compensate", "insufficient rights")
    /\ expenses[1].compensation_status = "pending"

-----------------------------------------------------------------------------
(* SpecAuth: bot/middlewares/auth_middleware.py.  main.py registers the     *)
(* middleware on the message and the callback_query observers, so it is     *)
(* called with every event the filters of a handler accept, and with that   *)
(* handler; an event that no handler accepts reaches neither and changes    *)
(* nothing.                                                                 *)

\* the senders of events: the two users and someone with no row in users
Senders == Users \cup {"stranger"}

\* UPDATE users SET is_active = is_active WHERE telegram_id = telegram_id
update_user_active_status(tbl, telegram_id, is_active) ==
    [t \in DOMAIN tbl |->
        IF t = telegram_id THEN [tbl[t] EXCEPT !.is_active = is_active] ELSE tbl[t]]

\* admin.py, lines 175-217 and 220-258: /block_user and /unblock_user with a
\* telegram id
cmd_set_active(u, command, telegram_id, is_active) ==
    /\ IF role(u) # "admin"
       THEN /\ answer' = Reply(command, "no rights")
            /\ UNCHANGED users
       ELSE IF ~is_active /\ telegram_id = u
       THEN /\ answer' = Reply(command, "you cannot block yourself")
            /\ UNCHANGED users
       ELSE /\ users' = update_user_active_status(users, telegram_id, is_active)
            /\ answer' = Reply(command, IF telegram_id \in DOMAIN users
                                        THEN "done" ELSE "user not found")
    /\ UNCHANGED <<ServiceVars, advances, expenses_id_seq, tasks, objects, expenses, logs, fsm, compensate_buttons>>

cmd_block_user(u, telegram_id) == cmd_set_active(u, "/block_user", telegram_id, FALSE)

cmd_unblock_user(u, telegram_id) == cmd_set_active(u, "/unblock_user", telegram_id, TRUE)

\* a variant that lets every sender with a row in users through
AuthMiddleware_for_known_senders(telegram_id, event, accepted, handler) ==
    /\ accepted
    /\ IF telegram_id \notin DOMAIN users
       THEN /\ answer' = Reply(event, "access denied")
            /\ UNCHANGED <<ServiceVars, DbVars_but_answer>>
       ELSE handler

\* AuthMiddleware.__call__ for an event the filters of a handler accepted:
\* get_user_by_telegram_id, then the notice or the handler
AuthMiddleware(telegram_id, event, accepted, handler) ==
    /\ accepted
    /\ IF telegram_id \notin DOMAIN users \/ ~users[telegram_id].is_active
       THEN /\ answer' = Reply(event, "access denied")
            /\ UNCHANGED <<ServiceVars, DbVars_but_answer>>
       ELSE handler

InState(u, st) == fsm[u].state = st

\* the events of sender u in the model, each with the filter of its handler
ExpenseAdd(u, o) ==
    AuthMiddleware(u, "expense:add", TRUE, start_add_expense(u, "supplies", o))
ExpenseText(u, parsed) ==
    AuthMiddleware(u, "text", InState(u, "AddExpenseStates:waiting_input"),
                   process_expense_text(u, parsed))
ExpenseConfirm(u) ==
    AuthMiddleware(u, "expense:confirm", InState(u, "AddExpenseStates:confirm_expense"),
                   confirm_expense(u))
Payment(u, ps) ==
    AuthMiddleware(u, "payment", InState(u, "AddExpenseStates:select_payment_source"),
                   select_payment_source(u, ps))
ExpenseSkipPhoto(u) ==
    AuthMiddleware(u, "expense:skip_photo", InState(u, "AddExpenseStates:waiting_photo"),
                   skip_expense_photo(u))
Cancel(u) ==
    AuthMiddleware(u, "cancel", TRUE, callback_cancel(u))
BlockUser(u, telegram_id) ==
    AuthMiddleware(u, "/block_user", TRUE, cmd_block_user(u, telegram_id))
UnblockUser(u, telegram_id) ==
    AuthMiddleware(u, "/unblock_user", TRUE, cmd_unblock_user(u, telegram_id))

\* an event of sender u is handled
EventOf(u) ==
    \/ \E o \in ObjectIds : ExpenseAdd(u, o)
    \/ \E parsed \in ParsedExpenses : ExpenseText(u, parsed)
    \/ ExpenseConfirm(u)
    \/ \E ps \in PaymentSource : Payment(u, ps)
    \/ ExpenseSkipPhoto(u)
    \/ Cancel(u)
    \/ \E t \in Senders : BlockUser(u, t)
    \/ \E t \in Senders : UnblockUser(u, t)

AuthInit ==
    /\ calc_obj = NoObject
    /\ calc_out = NoOutput
    /\ period_in = NoPeriod
    /\ period_out = NoOutput
    /\ tasks = NoTasks
    /\ objects = SavedObjects(ParsedSheets)
    /\ expenses = << >>
    /\ expenses_id_seq = 0
    /\ advances = << >>
    /\ users = RegisteredUsers
    /\ logs = EmptyBag
    /\ fsm = [u \in Senders |-> clear]
    /\ compensate_buttons = {}
    /\ answer = [event |-> None, text |-> None]

AuthNext ==
    \/ \E u \in Senders, o \in ObjectIds : ExpenseAdd(u, o)
    \/ \E u \in Senders, parsed \in ParsedExpenses : ExpenseText(u, parsed)
    \/ \E u \in Senders : ExpenseConfirm(u)
    \/ \E u \in Senders, ps \in PaymentSource : Payment(u, ps)
    \/ \E u \in Senders : ExpenseSkipPhoto(u)
    \/ \E u \in Senders : Cancel(u)
    \/ \E u \in Senders, t \in Senders : BlockUser(u, t)
    \/ \E u \in Senders, t \in Senders : UnblockUser(u, t)

SpecAuth == AuthInit /\ [][AuthNext]_vars

Authorised(u) == u \in DOMAIN users /\ users[u].is_active

\* C39: an event of a sender with no row in users, or with is_active false,
\* is answered with the access-denied notice and runs no handler: no table,
\* no conversation and no screen changes; a user just blocked is not active,
\* so the next event of that user is refused
C39_NoHandlerForUnauthorised ==
    [][/\ \A u \in Senders :
              (~Authorised(u) /\ EventOf(u)) =>
                  /\ answer'.text = "access denied"
                  /\ UNCHANGED <<ServiceVars, DbVars_but_answer>>
       /\ \A u \in Users, t \in DOMAIN users :
              (Authorised(u) /\ role(u) = "admin" /\ t # u /\ BlockUser(u, t)) =>
                  ~users'[t].is_active]_vars

\* the foreman was blocked while asked for the photo of a receipt and
\* pressed the skip button: refused, no expense, the conversation as it was
C39_Witness ==
    /\ answer = Reply("expense:skip_photo", "access denied")
    /\ ~users["foreman"].is_active
    /\ fsm["foreman"].state = "AddExpenseStates:waiting_photo"
    /\ expenses = << >>

\* someone with no row in users pressed a button
C39_WitnessStranger ==
    /\ answer = Reply("expense:add", "access denied")
    /\ fsm["stranger"] = clear
    /\ expenses = << >>


=============================================================================
